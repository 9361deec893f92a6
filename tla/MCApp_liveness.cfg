SPECIFICATION FairSpec
CONSTANTS
  None = None
  ollama = ollama
  openai = openai
  llama = llama
  gpt = gpt
  t1 = t1
  t2 = t2
  Provider <- BothProviders
  Keyless = {ollama}
  Model <- OneModel
  Offers <- OneOffer
  Task = {t1, t2}
  Commands = {"Connect", "Explain", "Analyze"}
  FormSections <- NoSections
PROPERTIES BusyEnds ConnectingEnds LoadingEnds PreviewEnds FormImplements PreviewImplements
