SPECIFICATION Spec
CONSTANTS
  None = None
  ollama = ollama
  openai = openai
  llama = llama
  gpt = gpt
  t1 = t1
  t2 = t2
  Provider <- BothProviders
  Keyless = {ollama}
  Model <- TwoModels
  Offers <- TwoOffers
  Task = {t1, t2}
  Commands = {"Provider"}
  FormSections <- NoModelSections
INVARIANT NeverAborts
