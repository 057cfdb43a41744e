----------------------------- MODULE NompConfig -----------------------------
(***************************************************************************)
(* The configuration of libnomp: nomp_set_configs() of src/nomp.c with the *)
(* scan of the command line, the environment variables, the conversion of  *)
(* numbers by nomp_str_toui() of src/aux.c, and the final checks.          *)
(*                                                                         *)
(* A command line is a sequence of words.  What the scan tells of a word   *)
(* is the option it is, if any, and the number strtol() reads from it.     *)
(***************************************************************************)
EXTENDS Integers, Sequences, FiniteSetsExt

CONSTANTS
  Words,     \* words of command lines, and values of environment variables
  OptionOf,  \* of each word: the field it is the option of, "unknown" for any
             \* other word that begins with --nomp, or NoWord
  NumberOf,  \* of each word: the number it is written as, or NoWord
  NoWord,    \* no word; the empty word is ""
  IntEnd,    \* ints are from -IntEnd to IntEnd - 1: 2^31
  Defaults   \* NOMP_DEFAULT_VERBOSE and so on

Numbers == {"verbose", "profile", "device", "platform"}
Names == {"install_dir", "backend", "scripts_dir", "annotations_script"}
Fields == Numbers \cup Names

\* There is no variable for the annotations script.
EnvFields == Fields \ {"annotations_script"}

ASSUME NompConfigAssumption ==
  /\ OptionOf \in [Words -> Fields \cup {"unknown", NoWord}]
  /\ \A w \in Words : NumberOf[w] = NoWord \/ NumberOf[w] \in Int
  /\ NoWord \notin Words \cup Fields
  /\ IntEnd \in Nat \ {0}
  /\ Defaults \in [Numbers -> Nat]

(***************************************************************************)
(* nomp_str_toui()                                                         *)
(***************************************************************************)
\* (int)strtol(...)
AsInt(n) == ((n + IntEnd) % (2 * IntEnd)) - IntEnd

nomp_str_toui(w) ==
  IF NumberOf[w] = NoWord \/ AsInt(NumberOf[w]) < 0 THEN -1 ELSE AsInt(NumberOf[w])

(***************************************************************************)
(* nomp_check_cmd_line(): an option takes the next word for its value,     *)
(* whatever that is.                                                       *)
(***************************************************************************)
Scanned(argv) ==
  LET option[i \in DOMAIN argv] ==
        /\ OptionOf[argv[i]] # NoWord
        /\ i > 1 => ~option[i - 1]
  IN  option

OptionsAt(argv) == {i \in DOMAIN argv : Len(argv) > 1 /\ Scanned(argv)[i]}

MissingValue(argv) == Len(argv) \in OptionsAt(argv)

OnCommandLine(argv, f) ==
  LET given == {i \in OptionsAt(argv) : OptionOf[argv[i]] = f}
  IN  IF given = {} THEN NoWord ELSE argv[Max(given) + 1]

(***************************************************************************)
(* nomp_set_configs(): environment variables win.                          *)
(***************************************************************************)
\* Broken: the command line wins.
CommandLineWins(argv, env, f) ==
  IF OnCommandLine(argv, f) = NoWord /\ f \in DOMAIN env THEN env[f]
  ELSE OnCommandLine(argv, f)

Given(argv, env, f) ==
  IF f \in DOMAIN env THEN env[f] ELSE OnCommandLine(argv, f)

Number(argv, env, f) ==
  LET w == Given(argv, env, f)
  IN  IF w = NoWord THEN Defaults[f] ELSE nomp_str_toui(w)

\* Broken: forgets to check the last of the numbers.
AcceptsButVerbose(argv, env) ==
  /\ ~MissingValue(argv)
  /\ \A f \in {"install_dir", "backend"} : Given(argv, env, f) \notin {NoWord, ""}
  /\ \A f \in Numbers \ {"verbose"} : Number(argv, env, f) >= 0

\* nomp_set_configs() returns 0.
Accepts(argv, env) ==
  /\ ~MissingValue(argv)
  /\ \A f \in {"install_dir", "backend"} : Given(argv, env, f) \notin {NoWord, ""}
  /\ \A f \in Numbers : Number(argv, env, f) >= 0
=============================================================================
