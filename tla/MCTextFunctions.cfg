\* One task each; the values are every short text over a few characters.
SPECIFICATION Spec
CONSTANTS
  Char <- MCChar
  Macros <- MCAllMacros
  Templates <- MCTemplates
  Lines <- MCLines
  Commands <- MCCommands
  Searches <- MCSearches
  ArgLists <- MCArgLists
  EnvLists <- MCEnvLists
  Failed = Failed
\* Every behaviour stops when its task is done.
CHECK_DEADLOCK FALSE
INVARIANTS
  MacrosReplaced
  BuildLineSplit
  CommandAsConfigured
  ProgramFound
  WindowsTextSurvives
