\* Sessions of a client that keeps the interpreter between them.
CONSTANTS
  Words = {"prog", "opencl", "d", "d1", "d2", "s1", "s2", "0", "1", "-1", "17", "",
           "--nomp-verbose", "--nomp-profile", "--nomp-backend",
           "--nomp-scripts-dir", "--nomp-annotations-script", "--nomp-unknown"}
  OptionOf <- TestOptionOf
  NumberOf <- TestNumberOf
  NoWord = NoWord
  IntEnd = 8
  Defaults <- TestDefaults
  CommandLines <- TwoDirectories
  Environments <- TwoEnvironments
  ScriptsIn <- TestScriptsIn
  Contexts = {c1}
  None = None
  MaxObjects = 0
  FreesNull = TRUE
  Misuse = {"retry"}
SPECIFICATION Spec
SYMMETRY Symmetric
INVARIANTS
  ScriptIsFromItsDirectory
