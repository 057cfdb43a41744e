\* Sessions of a client that retries whatever fails.
CONSTANTS
  Words = {"prog", "opencl", "d", "d1", "d2", "s1", "s2", "0", "1", "-1", "17", "",
           "--nomp-verbose", "--nomp-profile", "--nomp-backend",
           "--nomp-scripts-dir", "--nomp-annotations-script", "--nomp-unknown"}
  OptionOf <- TestOptionOf
  NumberOf <- TestNumberOf
  NoWord = NoWord
  IntEnd = 8
  Defaults <- TestDefaults
  CommandLines <- TestCommandLines
  Environments <- TestEnvironments
  ScriptsIn <- TestScriptsIn
  Contexts = {c1, c2}
  None = None
  MaxObjects = 1
  FreesNull = TRUE
  Misuse = {"again", "retry"}
SPECIFICATION Spec
SYMMETRY Symmetric
INVARIANTS
  TypeOK
  UpMeansReady
  DownMeansEmpty
  SettingsAreOfThisSession
PROPERTIES
  ContextsLostOnlyByInit
