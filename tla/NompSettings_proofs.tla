------------------------- MODULE NompSettings_proofs -------------------------
(***************************************************************************)
(* Proofs about NompConfig, and of what NompLifecycle keeps of it: the     *)
(* types of its variables, and that the settings of a session are those of *)
(* its own command line and environment, as far as the code keeps them so. *)
(*                                                                         *)
(* The scan of the command line is a recursive function.  That it has the  *)
(* values its equation gives it needs that the equation has a solution,    *)
(* and for a command line that can be read in one way only there is an     *)
(* obvious one; that an option given twice has a last occurrence is an     *)
(* induction, done here once by a least number that does not exist.        *)
(***************************************************************************)
EXTENDS NompLifecycle_proofs, SequenceTheorems, WellFoundedInduction

\* The order of the naturals, as a set of pairs.
Less == {ss \in Nat \X Nat : ss[1] < ss[2]}

\* A set of naturals that is not empty has a least element.
LEMMA Least ==
  ASSUME NEW T \in SUBSET Nat, T # {}
  PROVE  \E n \in T : \A m \in T : n <= m
<1>1. IsWellFoundedOn(Less, Nat)
  BY NatLessThanWellFounded DEF OpToRel, Less
<1>2. PICK n \in T : \A m \in T : <<m, n>> \notin Less
  BY <1>1, WFMin
<1>3. \A m \in T : ~(m < n)
  BY <1>2 DEF Less
<1>4. QED
  BY <1>3

\* One that is bounded has a greatest.
LEMMA Greatest ==
  ASSUME NEW n \in Nat, NEW S \in SUBSET (0 .. n), S # {}
  PROVE  Max(S) \in S /\ \A y \in S : Max(S) >= y
<1> DEFINE T == {n - x : x \in S}
<1>1. \A x \in S : n - x \in Nat
  OBVIOUS
<1>2. T \in SUBSET Nat /\ T # {}
  BY <1>1
<1> HIDE DEF T
<1>3. PICK t \in T : \A m \in T : t <= m
  BY <1>2, Least
<1>4. PICK x \in S : t = n - x
  BY DEF T
<1>5. \A y \in S : n - x <= n - y
  BY <1>3, <1>4 DEF T
<1>6. \A y \in S : x >= y
  BY <1>5
<1>7. QED
  BY <1>4, <1>6 DEF Max

(***************************************************************************)
(* Numbers.                                                                *)
(***************************************************************************)
LEMMA Multiple ==
  ASSUME NEW m \in Nat \ {0}, NEW q \in Int
  PROVE  (m * q) % m = 0
OBVIOUS

LEMMA Cut ==
  ASSUME NEW m \in Nat \ {0}, NEW x \in Int
  PROVE  ((x % m) - x) % m = 0
<1> DEFINE q == 0 - (x \div m)
<1>1. (x % m) - x = m * q
  BY SMT
<1>2. q \in Int
  BY SMT
<1>3. QED
  BY <1>1, <1>2, Multiple

\* What nomp_str_toui() accepts is a natural number, and the one that is
\* written up to multiples of 2^32.
LEMMA ReadsNumbers ==
  ASSUME NEW w \in Words, nomp_str_toui(w) >= 0
  PROVE  /\ nomp_str_toui(w) \in Nat
         /\ NumberOf[w] # NoWord
         /\ (nomp_str_toui(w) - NumberOf[w]) % (2 * IntEnd) = 0
<1>1. NumberOf[w] # NoWord /\ nomp_str_toui(w) = AsInt(NumberOf[w])
  BY DEF nomp_str_toui
<1>2. NumberOf[w] \in Int /\ 2 * IntEnd \in Nat \ {0} /\ IntEnd \in Nat
  BY <1>1, NompConfigAssumption
<1>3. PICK n : n = NumberOf[w]
  OBVIOUS
<1>4. PICK m : m = 2 * IntEnd
  OBVIOUS
<1>5. n \in Int /\ m \in Nat \ {0} /\ n + IntEnd \in Int
  BY <1>2, <1>3, <1>4
<1>6. AsInt(n) = ((n + IntEnd) % m) - IntEnd
  BY <1>4 DEF AsInt
<1>7. (n + IntEnd) % m \in Int
  BY <1>5
<1>8. AsInt(n) \in Int /\ AsInt(n) - n = ((n + IntEnd) % m) - (n + IntEnd)
  BY <1>2, <1>5, <1>6, <1>7
<1>9. (AsInt(n) - n) % m = 0
  BY <1>5, <1>8, Cut
<1>10. QED
  BY <1>1, <1>3, <1>4, <1>8, <1>9

(***************************************************************************)
(* The command line.                                                       *)
(***************************************************************************)
OptionsFor(argv, f) == {i \in OptionsAt(argv) : OptionOf[argv[i]] = f}

\* nomp_check_cmd_line() reads the word after the last option for a field.
LEMMA LastOption ==
  ASSUME NEW argv \in Seq(Words), NEW f, OptionsFor(argv, f) # {}, ~MissingValue(argv)
  PROVE  /\ Max(OptionsFor(argv, f)) \in OptionsFor(argv, f)
         /\ \A j \in OptionsFor(argv, f) : Max(OptionsFor(argv, f)) >= j
         /\ Max(OptionsFor(argv, f)) + 1 \in DOMAIN argv
         /\ OnCommandLine(argv, f) = argv[Max(OptionsFor(argv, f)) + 1]
<1> DEFINE S == OptionsFor(argv, f)
<1>1. S \subseteq 1 .. Len(argv) /\ Len(argv) \in Nat /\ Len(argv) \notin S
  BY DEF OptionsFor, OptionsAt, MissingValue
<1>2. S \in SUBSET (0 .. Len(argv)) /\ S # {}
  BY <1>1
<1>3. OnCommandLine(argv, f) = argv[Max(S) + 1]
  BY <1>2 DEF OnCommandLine, OptionsFor
<1> HIDE DEF S
<1>4. Max(S) \in S /\ \A y \in S : Max(S) >= y
  BY <1>1, <1>2, Greatest
<1>5. Max(S) \in 1 .. Len(argv) /\ Max(S) # Len(argv)
  BY <1>1, <1>4
<1>6. Max(S) + 1 \in 1 .. Len(argv)
  BY <1>1, <1>5
<1>7. QED
  BY <1>3, <1>4, <1>6 DEF S

LEMMA CommandLineWords ==
  ASSUME NEW argv \in Seq(Words), NEW f, ~MissingValue(argv)
  PROVE  OnCommandLine(argv, f) \in Words \cup {NoWord}
<1>1. CASE OptionsFor(argv, f) = {}
  BY <1>1 DEF OptionsFor, OnCommandLine
<1>2. CASE OptionsFor(argv, f) # {}
  BY <1>2, LastOption
<1>3. QED
  BY <1>1, <1>2

\* A command line that can be read in one way is read that way: every word that
\* is an option is taken for one, and none is taken for a value.
LEMMA ScanUnambiguous ==
  ASSUME NEW argv \in Seq(Words), Unambiguous(argv)
  PROVE  \A i \in DOMAIN argv : Scanned(argv)[i] <=> OptionOf[argv[i]] # NoWord
<1> DEFINE Is(i) == OptionOf[argv[i]] # NoWord
           Equation(o) == [i \in DOMAIN argv |-> Is(i) /\ (i > 1 => ~o[i - 1])]
           g == [i \in DOMAIN argv |-> Is(i)]
<1>1. DOMAIN argv = 1 .. Len(argv) /\ Len(argv) \in Nat
  OBVIOUS
<1>2. \A i \in DOMAIN argv : i > 1 => i - 1 \in DOMAIN argv
  BY <1>1
<1>3. \A i \in DOMAIN argv : i > 1 /\ Is(i - 1) => ~Is(i)
  <2>1. SUFFICES ASSUME NEW i \in DOMAIN argv, i > 1, Is(i - 1)
                 PROVE  ~Is(i)
    OBVIOUS
  <2>2. i - 1 \in DOMAIN argv /\ (i - 1) + 1 = i
    BY <1>1, <2>1
  <2>3. QED
    BY <2>1, <2>2 DEF Unambiguous
<1>4. g = Equation(g)
  BY <1>2, <1>3
<1>5. Scanned(argv) = CHOOSE o : o = Equation(o)
  BY DEF Scanned
<1> HIDE DEF Equation, g
<1>6. Scanned(argv) = Equation(Scanned(argv))
  BY <1>4, <1>5
<1>7. PICK s : s = Scanned(argv)
  OBVIOUS
<1>8. \A i \in DOMAIN argv : s[i] <=> Is(i) /\ (i > 1 => ~s[i - 1])
  BY <1>6, <1>7 DEF Equation
<1>9. \A i \in DOMAIN argv : i > 1 /\ Is(i) => ~s[i - 1]
  BY <1>2, <1>3, <1>8
<1>10. QED
  BY <1>7, <1>8, <1>9

LEMMA OptionsUnambiguous ==
  ASSUME NEW argv \in Seq(Words), Unambiguous(argv), NEW f, f # NoWord
  PROVE  /\ ~MissingValue(argv)
         /\ OptionsFor(argv, f) = {i \in DOMAIN argv : OptionOf[argv[i]] = f}
<1>1. DOMAIN argv = 1 .. Len(argv) /\ Len(argv) \in Nat
  OBVIOUS
<1>2. \A i \in DOMAIN argv : OptionOf[argv[i]] # NoWord => i # Len(argv) /\ Len(argv) > 1
  BY <1>1 DEF Unambiguous
<1>3. OptionsAt(argv) = {i \in DOMAIN argv : OptionOf[argv[i]] # NoWord}
  BY <1>2, ScanUnambiguous DEF OptionsAt
<1>4. QED
  BY <1>2, <1>3 DEF OptionsFor, MissingValue

(***************************************************************************)
(* The settings.                                                           *)
(***************************************************************************)
LEMMA Calls ==
  ASSUME NEW c \in InitCalls
  PROVE  /\ c.argv \in CommandLines /\ c.argv \in Seq(Words)
         /\ \A f \in DOMAIN c.env : c.env[f] \in Words
BY NompLifecycleAssumption DEF InitCalls

LEMMA GivenWords ==
  ASSUME NEW c \in InitCalls, ~MissingValue(c.argv), NEW f
  PROVE  Given(c.argv, c.env, f) \in Words \cup {NoWord}
BY Calls, CommandLineWords DEF Given

LEMMA ScriptWords ==
  ASSUME NEW c \in InitCalls, Accepts(c.argv, c.env), Scripted(c)
  PROVE  Script(c) \in Words
BY GivenWords DEF Accepts, Scripted, Script

\* What is given for a field is what is written for it.
LEMMA GivenIsWritten ==
  ASSUME NEW c \in InitCalls, Unambiguous(c.argv), NEW f \in Fields
  PROVE  Written(c, f) =
           IF Given(c.argv, c.env, f) = NoWord THEN {} ELSE {Given(c.argv, c.env, f)}
<1>1. f # NoWord /\ c.argv \in Seq(Words)
  BY Calls, NompConfigAssumption
<1>2. CASE f \in DOMAIN c.env
  BY <1>2, Calls, NompConfigAssumption DEF Given, Written
<1>3. CASE f \notin DOMAIN c.env
  <2> DEFINE S == OptionsFor(c.argv, f)
  <2>1. ~MissingValue(c.argv) /\ S = {i \in DOMAIN c.argv : OptionOf[c.argv[i]] = f}
    BY <1>1, OptionsUnambiguous
  <2>2. S \subseteq Int
    BY <1>1, <2>1
  <2>3. Written(c, f) = {c.argv[i + 1] : i \in {j \in S : \A k \in S : k <= j}}
    BY <1>3, <2>1 DEF Written
  <2>4. Given(c.argv, c.env, f) = OnCommandLine(c.argv, f)
    BY <1>3 DEF Given
  <2>5. CASE S = {}
    BY <2>3, <2>4, <2>5 DEF OnCommandLine, OptionsFor
  <2>6. CASE S # {}
    <3>1. /\ Max(S) \in S /\ \A j \in S : Max(S) >= j
          /\ Max(S) + 1 \in DOMAIN c.argv
          /\ OnCommandLine(c.argv, f) = c.argv[Max(S) + 1]
      BY <1>1, <2>1, <2>6, LastOption
    <3> HIDE DEF S
    <3>2. {j \in S : \A k \in S : k <= j} = {Max(S)}
      <4>1. PICK x \in S : x = Max(S)
        BY <3>1
      <4>2. \A k \in S : k <= x
        BY <2>2, <3>1, <4>1
      <4>3. \A j \in S : x <= j => j = x
        BY <2>2, <4>2
      <4>4. {j \in S : \A k \in S : k <= j} = {x}
        BY <4>2, <4>3
      <4>5. QED
        BY <4>1, <4>4
    <3>3. c.argv[Max(S) + 1] \in Words
      BY <1>1, <3>1
    <3>4. Written(c, f) = {c.argv[Max(S) + 1]}
      BY <2>3, <3>2
    <3>5. QED
      BY <2>4, <3>1, <3>3, <3>4, NompConfigAssumption
  <2>7. QED
    BY <2>5, <2>6
<1>4. QED
  BY <1>2, <1>3

LEMMA NumberType ==
  ASSUME NEW c \in InitCalls, Accepts(c.argv, c.env), NEW f \in Numbers
  PROVE  Number(c.argv, c.env, f) \in Nat
<1> DEFINE w == Given(c.argv, c.env, f)
<1>1. w \in Words \cup {NoWord} /\ Number(c.argv, c.env, f) >= 0
  BY GivenWords DEF Accepts
<1>2. CASE w = NoWord
  BY <1>2, NompConfigAssumption DEF Number
<1>3. CASE w \in Words /\ w # NoWord
  BY <1>1, <1>3, ReadsNumbers DEF Number
<1>4. QED
  BY <1>1, <1>2, <1>3

LEMMA NumberRead ==
  ASSUME NEW c \in InitCalls, Accepts(c.argv, c.env), Unambiguous(c.argv),
         NEW f \in Numbers
  PROVE  ReadsAs(Number(c.argv, c.env, f), c, f)
<1> DEFINE w == Given(c.argv, c.env, f)
<1>1. w \in Words \cup {NoWord} /\ Number(c.argv, c.env, f) >= 0
  BY GivenWords DEF Accepts
<1>2. Written(c, f) = IF w = NoWord THEN {} ELSE {w}
  BY GivenIsWritten DEF Fields
<1>3. CASE w = NoWord
  BY <1>2, <1>3 DEF Number, ReadsAs
<1>4. CASE w \in Words /\ w # NoWord
  <2>1. Number(c.argv, c.env, f) = nomp_str_toui(w)
    BY <1>4 DEF Number
  <2>2. /\ NumberOf[w] # NoWord
        /\ (nomp_str_toui(w) - NumberOf[w]) % (2 * IntEnd) = 0
    BY <1>1, <1>4, <2>1, ReadsNumbers
  <2>3. Written(c, f) = {w}
    BY <1>2, <1>4
  <2> HIDE DEF w
  <2>4. QED
    BY <2>1, <2>2, <2>3 DEF ReadsAs
<1>5. QED
  BY <1>1, <1>3, <1>4

(***************************************************************************)
(* The variables.                                                          *)
(***************************************************************************)
LEMMA InitTypes == Init => TypeOK
<1>1. SUFFICES ASSUME Init PROVE TypeOK
  OBVIOUS
<1>2. asked.argv = <<>>
  BY <1>1 DEF Init
<1>3. {initialized, python, strings, context, scratch, stuck} \subseteq BOOLEAN
  BY <1>1, Zenon DEF Init
<1>4. {mems, progs, verbose, profile_level} \subseteq Nat
  BY <1>1 DEF Init
<1>5. /\ annotate = None /\ origin = None /\ path = <<>>
      /\ bptr = None /\ contexts = {} /\ slips = {}
  BY <1>1 DEF Init
<1>6. QED
  BY <1>2, <1>3, <1>4, <1>5 DEF TypeOK

LEMMA DefaultVerbose == Defaults["verbose"] \in Nat
BY NompConfigAssumption DEF Numbers

LEMMA TriesTypes ==
  ASSUME TypeOK, NEW c \in InitCalls, Tries(c),
         {python', strings', context', initialized', scratch'} \subseteq BOOLEAN,
         path' \in Seq(Dirs),
         annotate' \in Words \cup {None}, origin' \in Dirs \cup {None},
         bptr' \in Contexts \cup {None}, contexts' \subseteq Contexts,
         verbose' \in Nat, profile_level' \in Nat,
         slips' \subseteq slips \cup {"failed"}
  PROVE  TypeOK'
<1>1. asked'.argv \in CommandLines \cup {<<>>}
  BY Calls DEF Tries
<1>2. QED
  BY <1>1 DEF TypeOK, Tries

LEMMA PathTypes ==
  ASSUME TypeOK, NEW c \in InitCalls, Accepts(c.argv, c.env)
  PROVE  /\ WithDir(path, "") \in Seq(Dirs)
         /\ WithDirs(path, c) \in Seq(Dirs)
<1>1. ScriptsDir(c) \in Dirs /\ "" \in Dirs
  BY GivenWords DEF Accepts, ScriptsDir, Dirs
<1>2. ASSUME NEW p \in Seq(Dirs), NEW dir \in Dirs
      PROVE  WithDir(p, dir) \in Seq(Dirs)
  BY <1>2, AppendProperties DEF WithDir
<1>3. WithDir(path, "") \in Seq(Dirs)
  BY <1>1, <1>2 DEF TypeOK
<1>4. QED
  BY <1>1, <1>2, <1>3 DEF WithDirs

LEMMA HasPythonTypes ==
  ASSUME TypeOK, NEW c \in InitCalls, HasPython(c)
  PROVE  /\ verbose' \in Nat /\ profile_level' \in Nat
         /\ python' \in BOOLEAN /\ strings' \in BOOLEAN
         /\ path' \in Seq(Dirs)
BY NumberType, PathTypes DEF HasPython, Numbers

\* Where a script is found is a directory that is searched.
LEMMA FoundOnPath ==
  ASSUME NEW p, NEW s, NEW dir \in FoundIn(p, s)
  PROVE  \E i \in DOMAIN p : p[i] = dir
BY DEF FoundIn

LEMMA HasScriptTypes ==
  ASSUME TypeOK, NEW c \in InitCalls, HasScript(c)
  PROVE  /\ annotate' \in Words \cup {None} /\ origin' \in Dirs \cup {None}
         /\ context' \in BOOLEAN
<1>1. CASE Scripted(c)
  <2>1. path' \in Seq(Dirs)
    BY HasPythonTypes DEF HasScript
  <2>2. origin' \in FoundIn(path', Script(c))
    BY <1>1 DEF HasScript
  <2>3. PICK i \in DOMAIN path' : path'[i] = origin'
    BY <2>2, FoundOnPath
  <2>4. QED
    BY <1>1, <2>1, <2>3, ScriptWords DEF HasScript, HasPython
<1>2. CASE ~Scripted(c)
  BY <1>2 DEF HasScript, script, TypeOK
<1>3. QED
  BY <1>1, <1>2

LEMMA HasBackendTypes ==
  ASSUME TypeOK, NEW c \in InitCalls, HasBackend(c)
  PROVE  bptr' \in Contexts \cup {None} /\ contexts' \subseteq Contexts
BY DEF HasBackend, TypeOK

LEMMA TryToInitTypes ==
  ASSUME TypeOK, NEW c \in InitCalls, TryToInit(c)
  PROVE  TypeOK'
<1>1. CASE InitRefuses(c) \/ InitWithoutPython(c)
  BY <1>1, TriesTypes, PathTypes, DefaultVerbose
  DEF InitRefuses, InitWithoutPython, Fails, interpreter, script, device, TypeOK
<1>2. CASE InitWithoutScript(c)
  BY <1>2, TriesTypes, HasPythonTypes
  DEF InitWithoutScript, HasPython, Fails, script, device, TypeOK
<1>3. CASE InitWithoutBackend(c)
  BY <1>3, TriesTypes, HasPythonTypes, HasScriptTypes
  DEF InitWithoutBackend, HasScript, HasPython, Fails, TypeOK
<1>4. CASE InitWithoutScratch(c) \/ Initialize(c)
  BY <1>4, TriesTypes, HasPythonTypes, HasScriptTypes, HasBackendTypes
  DEF InitWithoutScratch, Initialize, HasBackend, HasScript, HasPython, Fails, TypeOK
<1>5. QED
  BY <1>1, <1>2, <1>3, <1>4 DEF TryToInit

LEMMA TryToFinalizeTypes ==
  ASSUME TypeOK, TryToFinalize
  PROVE  TypeOK'
<1>1. ASSUME Finalizes, mems' \in Nat, progs' \in Nat,
             {initialized', python', strings', scratch', stuck'} \subseteq BOOLEAN,
             path' \in Seq(Dirs), slips' \subseteq slips \cup {"kept"},
             bptr' \in Contexts \cup {None}, contexts' \subseteq Contexts
      PROVE  TypeOK'
  BY <1>1 DEF Finalizes, settings, TypeOK
<1>2. CASE FinalizeStopsAtMem \/ FinalizeStopsAtScratch \/ FinalizeStopsAtProg
  <2>1. mems' \in Nat /\ progs' \in Nat
    BY <1>2
    DEF FinalizeStopsAtMem, FinalizeStopsAtScratch, FinalizeStopsAtProg, TypeOK
  <2>2. QED
    BY <1>1, <1>2, <2>1
    DEF FinalizeStopsAtMem, FinalizeStopsAtScratch, FinalizeStopsAtProg, Stops, TypeOK
<1>3. ASSUME NEW withPython \in BOOLEAN,
             FinalizeStopsAtBackend(withPython) \/ Finalize(withPython)
      PROVE  TypeOK'
  <2>1. FreesAll(withPython)
    BY <1>3 DEF FinalizeStopsAtBackend, Finalize
  <2>2. python' \in BOOLEAN
    BY <2>1, Zenon DEF FreesAll
  <2>4. path' \in Seq(Dirs) /\ slips' \subseteq slips \cup {"kept"}
    BY <2>1 DEF FreesAll, TypeOK
  <2>3. /\ initialized' \in BOOLEAN /\ stuck' \in BOOLEAN
        /\ bptr' \in Contexts \cup {None} /\ contexts' \subseteq Contexts
    BY <1>3 DEF FinalizeStopsAtBackend, Finalize, TypeOK
  <2>5. QED
    BY <1>1, <2>1, <2>2, <2>3, <2>4 DEF FreesAll
<1>4. QED
  BY <1>2, <1>3 DEF TryToFinalize

LEMMA NextTypes ==
  ASSUME TypeOK, [Next]_vars
  PROVE  TypeOK'
<1>1. CASE InitAgain
  BY <1>1, DefaultVerbose DEF InitAgain, interpreter, script, device, TypeOK
<1>2. CASE Use
  BY <1>2, NompLifecycleAssumption DEF Use, interpreter, script, device, settings, TypeOK
<1>3. CASE UNCHANGED vars
  BY <1>3 DEF vars, interpreter, script, device, settings, TypeOK
<1>4. QED
  BY <1>1, <1>2, <1>3, TryToInitTypes, TryToFinalizeTypes DEF Next

\* Whatever the command line says, only words and numbers that are not negative
\* end up in the configuration.
THEOREM Types == Spec => []TypeOK
BY InitTypes, NextTypes, PTL DEF Spec

(***************************************************************************)
(* The settings of a session.                                              *)
(***************************************************************************)
\* A session runs with what its nomp_init() read.  A nomp_finalize() forgets the
\* script of the annotations, also one that fails.
LevelsAreRead ==
  initialized =>
    /\ asked \in InitCalls /\ Accepts(asked.argv, asked.env)
    /\ "again" \notin slips => verbose = Number(asked.argv, asked.env, "verbose")
    /\ profile_level = Number(asked.argv, asked.env, "profile")

ScriptIsRead ==
  initialized /\ ~stuck =>
    IF Scripted(asked) THEN annotate = Script(asked)
    ELSE "failed" \notin slips => annotate = None

\* An interpreter that was not used before searches the directories of this
\* session only; where it found the script it would find it again.
NewPython == slips \cap {"failed", "kept"} = {}

Searched(p) == {p[i] : i \in DOMAIN p}

DirsAreOfThisSession ==
  /\ ~python => Searched(path) = {}
  /\ NewPython /\ ~initialized => ~python
  /\ NewPython /\ initialized => Searched(path) \subseteq {"", ScriptsDir(asked)}
  /\ annotate # None => origin \in Searched(path)

SettingsAreRead == LevelsAreRead /\ ScriptIsRead /\ DirsAreOfThisSession

LEMMA SearchedWithDir ==
  ASSUME NEW p \in Seq(Dirs), NEW dir
  PROVE  Searched(WithDir(p, dir)) = Searched(p) \cup {dir}
<1>1. CASE \E i \in DOMAIN p : p[i] = dir
  BY <1>1 DEF WithDir, Searched
<1>2. CASE ~\E i \in DOMAIN p : p[i] = dir
  <2> DEFINE q == Append(p, dir)
  <2>1. WithDir(p, dir) = q
    BY <1>2 DEF WithDir
  <2>2. /\ DOMAIN q = 1 .. Len(p) + 1 /\ DOMAIN p = 1 .. Len(p) /\ Len(p) \in Nat
        /\ \A i \in DOMAIN p : q[i] = p[i]
        /\ q[Len(p) + 1] = dir
    OBVIOUS
  <2>3. DOMAIN q = DOMAIN p \cup {Len(p) + 1}
    BY <2>2
  <2> HIDE DEF q
  <2>4. QED
    BY <2>1, <2>2, <2>3 DEF Searched
<1>3. QED
  BY <1>1, <1>2

\* The path grows by the directories of this session.
LEMMA SearchedWithDirs ==
  ASSUME TypeOK, NEW c \in InitCalls, Accepts(c.argv, c.env)
  PROVE  /\ Searched(WithDir(path, "")) = Searched(path) \cup {""}
         /\ Searched(WithDirs(path, c)) = Searched(path) \cup {"", ScriptsDir(c)}
<1>1. path \in Seq(Dirs) /\ WithDir(path, "") \in Seq(Dirs)
  BY PathTypes DEF TypeOK
<1>2. Searched(WithDir(path, "")) = Searched(path) \cup {""}
  BY <1>1, SearchedWithDir
<1>3. PICK q \in Seq(Dirs) : q = WithDir(path, "")
  BY <1>1
<1>4. Searched(WithDir(q, ScriptsDir(c))) = Searched(q) \cup {ScriptsDir(c)}
  BY SearchedWithDir
<1>5. QED
  BY <1>2, <1>3, <1>4 DEF WithDirs

LEMMA InitReads == Init => SettingsAreRead
BY DEF Init, SettingsAreRead, LevelsAreRead, ScriptIsRead, DirsAreOfThisSession, Searched

\* A nomp_init() that fails leaves a flag that is FALSE, and a path that holds
\* what it held.
LEMMA FailureReads ==
  ASSUME TypeOK, SettingsAreRead, NEW c \in InitCalls, TryToInit(c), Fails
  PROVE  SettingsAreRead'
<1>1. ~initialized /\ ~initialized' /\ ~NewPython'
  BY DEF TryToInit, InitRefuses, InitWithoutPython, InitWithoutScript, HasScript,
         InitWithoutBackend, InitWithoutScratch, Initialize, HasBackend, HasPython,
         Tries, Fails, NewPython
<1>2. \/ UNCHANGED interpreter
      \/ Accepts(c.argv, c.env) /\ python' = TRUE
  BY DEF TryToInit, InitRefuses, InitWithoutPython, InitWithoutScript, HasScript,
         InitWithoutBackend, InitWithoutScratch, Initialize, HasBackend, HasPython
<1>3. path' \in {path, WithDir(path, ""), WithDirs(path, c)}
  BY DEF TryToInit, InitRefuses, InitWithoutPython, InitWithoutScript, HasScript,
         InitWithoutBackend, InitWithoutScratch, Initialize, HasBackend, HasPython,
         interpreter
<1>4. \/ UNCHANGED script
      \/ origin' \in FoundIn(path', Script(c))
  BY DEF TryToInit, InitRefuses, InitWithoutPython, InitWithoutScript, HasScript,
         InitWithoutBackend, InitWithoutScratch, Initialize, HasBackend, HasPython,
         interpreter
<1>5. Searched(path) \subseteq Searched(path')
  BY <1>2, <1>3, SearchedWithDirs DEF interpreter
<1>6. annotate' # None => origin' \in Searched(path')
  BY <1>4, <1>5 DEF SettingsAreRead, DirsAreOfThisSession, script, FoundIn, Searched
<1>7. ~python' => Searched(path') = {}
  BY <1>2 DEF interpreter, SettingsAreRead, DirsAreOfThisSession, Searched
<1>8. QED
  BY <1>1, <1>6, <1>7
  DEF SettingsAreRead, LevelsAreRead, ScriptIsRead, DirsAreOfThisSession

LEMMA InitializeReads ==
  ASSUME TypeOK, IInv, SettingsAreRead, NEW c \in InitCalls, Initialize(c)
  PROVE  SettingsAreRead'
<1>1. /\ ~initialized /\ slips' = slips /\ asked' = c /\ python' = TRUE
      /\ initialized' = TRUE
      /\ Accepts(c.argv, c.env)
      /\ verbose' = Number(c.argv, c.env, "verbose")
      /\ profile_level' = Number(c.argv, c.env, "profile")
      /\ path' = WithDirs(path, c)
  BY DEF Initialize, HasBackend, HasScript, HasPython, Tries
<1>2. IF Scripted(c)
      THEN annotate' = Script(c) /\ origin' \in FoundIn(path', Script(c))
      ELSE UNCHANGED script
  BY DEF Initialize, HasBackend, HasScript
<1>3. "failed" \notin slips => annotate = None
  BY <1>1 DEF IInv, DownMeansEmpty
<1>4. PICK d \in InitCalls : d = c
  OBVIOUS
<1>5. Searched(path') = Searched(path) \cup {"", ScriptsDir(d)}
  BY <1>1, <1>4, SearchedWithDirs
<1>6. NewPython => Searched(path') \subseteq {"", ScriptsDir(d)}
  BY <1>1, <1>5 DEF SettingsAreRead, DirsAreOfThisSession
<1>7. annotate' # None => origin' \in Searched(path')
  BY <1>2, <1>5 DEF SettingsAreRead, DirsAreOfThisSession, script, FoundIn, Searched
<1>8. asked' = d
  BY <1>1, <1>4
<1>9. LevelsAreRead'
  BY <1>1, <1>4, <1>8 DEF LevelsAreRead
<1>10. ScriptIsRead'
  <2>1. Scripted(d) => annotate' = Script(d)
    BY <1>2, <1>4
  <2>2. ~Scripted(d) /\ "failed" \notin slips' => annotate' = None
    BY <1>1, <1>2, <1>3, <1>4 DEF script
  <2>3. QED
    BY <1>8, <2>1, <2>2 DEF ScriptIsRead, Scripted, Script
<1>11. DirsAreOfThisSession'
  BY <1>1, <1>6, <1>7, <1>8 DEF DirsAreOfThisSession, NewPython
<1>12. QED
  BY <1>9, <1>10, <1>11 DEF SettingsAreRead

LEMMA TryToFinalizeReads ==
  ASSUME SettingsAreRead, TryToFinalize
  PROVE  SettingsAreRead'
<1>1. Finalizes /\ initialized
  BY DEF TryToFinalize, FinalizeStopsAtMem, FinalizeStopsAtScratch,
         FinalizeStopsAtProg, FinalizeStopsAtBackend, Finalize, FreesAll, Stops, Finalizes
<1>2. annotate' = None /\ UNCHANGED <<settings, asked>>
  BY <1>1 DEF Finalizes
<1>3. initialized' => stuck' /\ initialized
  BY <1>1
  DEF TryToFinalize, FinalizeStopsAtMem, FinalizeStopsAtScratch, FinalizeStopsAtProg,
      FinalizeStopsAtBackend, Finalize, Stops
<1>4. \/ UNCHANGED <<initialized, python, path, slips>>
      \/ \E withPython \in BOOLEAN : FreesAll(withPython)
  BY DEF TryToFinalize, FinalizeStopsAtMem, FinalizeStopsAtScratch,
         FinalizeStopsAtProg, FinalizeStopsAtBackend, Finalize, Stops
<1>5. LevelsAreRead' /\ ScriptIsRead'
  <2>1. initialized' /\ "again" \notin slips' => initialized /\ "again" \notin slips
    BY <1>3, <1>4 DEF FreesAll
  <2>2. PICK d : d = asked
    OBVIOUS
  <2>3. asked = d /\ asked' = d /\ UNCHANGED <<verbose, profile_level>>
    BY <1>2, <2>2 DEF settings
  <2>4. LevelsAreRead'
    BY <1>1, <2>1, <2>3 DEF SettingsAreRead, LevelsAreRead
  <2>5. QED
    BY <1>3, <2>4 DEF ScriptIsRead
<1>6. DirsAreOfThisSession'
  <2>1. CASE UNCHANGED <<initialized, python, path, slips>>
    <3>1. PICK d : d = ScriptsDir(asked)
      OBVIOUS
    <3>2. ScriptsDir(asked') = d
      BY <1>2, <3>1
    <3>3. QED
      BY <1>1, <1>2, <2>1, <3>1, <3>2
      DEF SettingsAreRead, DirsAreOfThisSession, NewPython
  <2>2. ASSUME FreesAll(TRUE)
        PROVE  DirsAreOfThisSession'
    <3>1. ~python'
      BY <2>2, Zenon DEF FreesAll
    <3>2. path' = <<>>
      BY <2>2 DEF FreesAll
    <3>3. Searched(path') = {}
      BY <3>2 DEF Searched
    <3>4. QED
      BY <1>2, <3>1, <3>3 DEF DirsAreOfThisSession
  <2>3. ASSUME FreesAll(FALSE)
        PROVE  DirsAreOfThisSession'
    <3>1. ~NewPython' /\ path' = path
      BY <2>3 DEF FreesAll, NewPython
    <3>2. ~python' => ~python
      BY <2>3, Zenon DEF FreesAll
    <3>3. ~python' => Searched(path') = {}
      BY <3>1, <3>2 DEF SettingsAreRead, DirsAreOfThisSession
    <3>4. QED
      BY <1>2, <3>1, <3>3 DEF SettingsAreRead, DirsAreOfThisSession
  <2>4. QED
    BY <1>4, <2>1, <2>2, <2>3
<1>7. QED
  BY <1>5, <1>6 DEF SettingsAreRead

LEMMA NextReads ==
  ASSUME TypeOK, IInv, SettingsAreRead, [Next]_vars
  PROVE  SettingsAreRead'
<1>1. CASE InitAgain
  <2>1. PICK d : d = asked /\ d = asked'
    BY <1>1 DEF InitAgain
  <2>2. UNCHANGED <<initialized, python, path, annotate, origin, profile_level, stuck>>
    BY <1>1 DEF InitAgain, interpreter, script
  <2>3. slips' = slips \cup {"again"}
    BY <1>1 DEF InitAgain
  <2>4. LevelsAreRead'
    BY <2>1, <2>2, <2>3 DEF SettingsAreRead, LevelsAreRead
  <2>5. ScriptIsRead'
    BY <2>1, <2>2, <2>3 DEF SettingsAreRead, ScriptIsRead
  <2>6. DirsAreOfThisSession'
    BY <2>1, <2>2, <2>3 DEF SettingsAreRead, DirsAreOfThisSession, NewPython
  <2>7. QED
    BY <2>4, <2>5, <2>6 DEF SettingsAreRead
<1>2. CASE Use \/ UNCHANGED vars
  <2>1. PICK d : d = asked /\ d = asked'
    BY <1>2 DEF Use, vars
  <2>2. UNCHANGED <<initialized, python, path, annotate, origin, verbose,
                    profile_level, stuck, slips>>
    BY <1>2 DEF Use, vars, interpreter, script, settings
  <2>3. LevelsAreRead' /\ ScriptIsRead'
    BY <2>1, <2>2 DEF SettingsAreRead, LevelsAreRead, ScriptIsRead
  <2>4. DirsAreOfThisSession'
    BY <2>1, <2>2 DEF SettingsAreRead, DirsAreOfThisSession, NewPython
  <2>5. QED
    BY <2>3, <2>4 DEF SettingsAreRead
<1>3. ASSUME NEW c \in InitCalls, TryToInit(c)
      PROVE  SettingsAreRead'
  BY <1>3, FailureReads, InitializeReads
  DEF TryToInit, InitRefuses, InitWithoutPython, InitWithoutScript, InitWithoutBackend,
      InitWithoutScratch
<1>4. QED
  BY <1>1, <1>2, <1>3, TryToFinalizeReads DEF Next

\* What is read is what is written.
LEMMA ReadIsWritten ==
  ASSUME SettingsAreRead
  PROVE  SettingsAreOfThisSession
<1>1. SUFFICES ASSUME initialized, ~stuck, Unambiguous(asked.argv)
               PROVE  /\ "again" \notin slips => ReadsAs(verbose, asked, "verbose")
                      /\ ReadsAs(profile_level, asked, "profile")
                      /\ IF annotate = None \/ "failed" \in slips
                         THEN Written(asked, "annotations_script") \subseteq {"", annotate}
                         ELSE Written(asked, "annotations_script") = {annotate}
                      /\ NewPython => ScriptIsOfThisSession
  BY DEF SettingsAreOfThisSession, NewPython
<1>2. PICK c \in InitCalls : c = asked
  BY <1>1 DEF SettingsAreRead, LevelsAreRead
<1>3. /\ Accepts(c.argv, c.env) /\ Unambiguous(c.argv)
      /\ "again" \notin slips => verbose = Number(c.argv, c.env, "verbose")
      /\ profile_level = Number(c.argv, c.env, "profile")
      /\ IF Scripted(c) THEN annotate = Script(c)
         ELSE "failed" \notin slips => annotate = None
  BY <1>1, <1>2 DEF SettingsAreRead, LevelsAreRead, ScriptIsRead
<1>4. /\ ReadsAs(Number(c.argv, c.env, "verbose"), c, "verbose")
      /\ ReadsAs(Number(c.argv, c.env, "profile"), c, "profile")
  BY <1>3, NumberRead DEF Numbers
<1>5. Written(c, "annotations_script") = IF Script(c) = NoWord THEN {} ELSE {Script(c)}
  BY <1>3, GivenIsWritten DEF Script, Fields, Names
<1>6. IF annotate = None \/ "failed" \in slips
      THEN Written(c, "annotations_script") \subseteq {"", annotate}
      ELSE Written(c, "annotations_script") = {annotate}
  BY <1>3, <1>5 DEF Scripted
<1>7. NewPython => ScriptIsOfThisSession
  BY <1>1 DEF SettingsAreRead, DirsAreOfThisSession, ScriptIsOfThisSession
<1>8. QED
  BY <1>2, <1>3, <1>4, <1>6, <1>7

\* The settings of a session are what its own command line and environment say,
\* whatever sessions were before and however they ended, with the exceptions that
\* SettingsAreOfThisSession names.
THEOREM Settings == Spec => []SettingsAreOfThisSession
<1>1. TypeOK /\ IInv /\ SettingsAreRead /\ [Next]_vars => SettingsAreRead'
  BY NextReads
<1>2. SettingsAreRead => SettingsAreOfThisSession
  BY ReadIsWritten
<1>3. QED
  BY Types, Inductive, InitReads, <1>1, <1>2, PTL DEF Spec
=============================================================================
