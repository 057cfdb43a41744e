--------------------------- MODULE MCNompLifecycle ---------------------------
EXTENDS NompLifecycle, TLC

TestOptionOf == [w \in Words |->
  CASE w = "--nomp-verbose" -> "verbose"
    [] w = "--nomp-profile" -> "profile"
    [] w = "--nomp-backend" -> "backend"
    [] w = "--nomp-scripts-dir" -> "scripts_dir"
    [] w = "--nomp-annotations-script" -> "annotations_script"
    [] w = "--nomp-unknown" -> "unknown"
    [] OTHER -> NoWord]

TestNumberOf == [w \in Words |->
  CASE w = "0" -> 0 [] w = "1" -> 1 [] w = "-1" -> -1 [] w = "17" -> 17
    [] OTHER -> NoWord]

\* s1 is in both scripts directories, s2 in one and in the working directory.
TestScriptsIn == [w \in Words |->
  CASE w = "d1" -> {"s1", "s2"} [] w = "d2" -> {"s1"} [] w = "" -> {"s2"} [] OTHER -> {}]

TestDefaults ==
  [verbose |-> 2, profile |-> 0, device |-> 0, platform |-> 0]

\* As tests/nomp-api-020.c has them, and two that are ambiguous.
TestCommandLines ==
  {<<>>,
   <<"prog", "--nomp-verbose", "1", "opencl", "--nomp-annotations-script", "s1">>,
   <<"--nomp-scripts-dir", "d2", "--nomp-profile", "17", "--nomp-verbose", "1",
     "--nomp-verbose", "0", "--nomp-annotations-script", "s1">>,
   <<"--nomp-annotations-script", "s2", "--nomp-profile", "1">>,
   <<"--nomp-unknown", "0", "--nomp-verbose", "-1">>,
   <<"--nomp-backend", "opencl", "--nomp-verbose">>,
   <<"--nomp-annotations-script", "--nomp-verbose", "1">>}

\* As tests/nomp-api-021.c has them.
TestEnvironments ==
  {[install_dir |-> "d", backend |-> "opencl"],
   [install_dir |-> "d", backend |-> "opencl", scripts_dir |-> "d1", verbose |-> "0"],
   [install_dir |-> "d", profile |-> ""]}

\* Two sessions of one script in different directories.
TwoDirectories ==
  {<<"--nomp-scripts-dir", w, "--nomp-annotations-script", "s1">> : w \in {"d1", "d2"}}

TwoEnvironments == {[install_dir |-> "d", backend |-> "opencl"]}

Symmetric == Permutations(Contexts)
=============================================================================
