--------------------------- MODULE NompLifecycle ---------------------------
(***************************************************************************)
(* nomp_init() and nomp_finalize() of src/nomp.c with what they call in    *)
(* src/loopy.c, src/log.c and the backends.  Each acquires or releases one *)
(* resource after the other and returns at the first error, leaving things *)
(* as they are, so that the interesting states are those between.          *)
(*                                                                         *)
(* Memory and programs are only counted here: NompMem and NompRun model    *)
(* what they are.                                                          *)
(***************************************************************************)
EXTENDS NompConfig

CONSTANTS
  CommandLines,    \* what clients pass to nomp_init()
  Environments,    \* the environments they run in
  ScriptsIn,       \* of each directory: the annotation scripts in it
  Contexts,        \* device contexts the driver can have at once
  None,            \* NULL
  MaxObjects,      \* bound: mapped slices, and kernels
  FreesNull,       \* freeing a NULL buffer succeeds, as on CUDA and HIP
  Misuse           \* what the client does wrong: "again", "retry"

\* Where scripts are searched: "" is the working directory.
Dirs == Words \cup {""}

ASSUME NompLifecycleAssumption ==
  /\ CommandLines \subseteq Seq(Words)
  /\ \A env \in Environments :
       DOMAIN env \subseteq EnvFields /\ \A f \in DOMAIN env : env[f] \in Words
  /\ ScriptsIn \in [Dirs -> SUBSET Words]
  /\ None \notin Words /\ None \notin Contexts
  /\ MaxObjects \in Nat
  /\ FreesNull \in BOOLEAN

VARIABLES
  initialized,    \* the flag of src/nomp.c
  python,         \* the interpreter is initialized
  strings,        \* the Python strings of src/loopy.c are set
  context,        \* nomp.py_context is set
  path,           \* sys.path: directories in the order of the search
  annotate,       \* nomp.py_annotate: the script it is of
  origin,         \* the directory that script was found in
  bptr,           \* nomp.bptr: the device context
  contexts,       \* device contexts the driver has
  scratch,        \* nomp.scratch has a buffer
  mems, progs,    \* how many slices are mapped and kernels registered
  verbose, profile_level,
  asked,          \* the client: what it last called nomp_init() with
  stuck,          \* the client: its last nomp_finalize() returned an error
  slips           \* the client: "again", "failed": a nomp_init() it should
                  \* not have called, one that returned an error; "kept": the
                  \* interpreter was kept by a nomp_finalize()

script == <<annotate, origin>>
interpreter == <<python, strings, context, path, script>>
device == <<bptr, contexts, scratch>>
settings == <<verbose, profile_level>>
vars == <<initialized, interpreter, device, mems, progs, settings, asked, stuck,
          slips>>

\* A call of nomp_init().
InitCalls == [argv : CommandLines, env : Environments]

Script(c) == Given(c.argv, c.env, "annotations_script")
Scripted(c) == Script(c) \notin {NoWord, ""}

(***************************************************************************)
(* nomp_py_append_to_sys_path().  A directory that is searched already is  *)
(* found where it was.  Python appends "." and the directory of libnomp,   *)
(* which has no script of a client and is left out, then the scripts       *)
(* directory.                                                              *)
(***************************************************************************)
WithDir(p, dir) == IF \E i \in DOMAIN p : p[i] = dir THEN p ELSE Append(p, dir)

ScriptsDir(c) ==
  LET w == Given(c.argv, c.env, "scripts_dir") IN IF w = NoWord THEN "" ELSE w

WithDirs(p, c) == WithDir(WithDir(p, ""), ScriptsDir(c))

\* PyImport_ImportModule(): the first directory that has the script.  A module
\* imported before is not searched again, but would be found where it was.
FoundIn(p, s) ==
  {p[i] : i \in {i \in DOMAIN p : /\ s \in ScriptsIn[p[i]]
                                 /\ \A j \in 1 .. i - 1 : s \notin ScriptsIn[p[j]]}}

(***************************************************************************)
(* nomp_init()                                                             *)
(***************************************************************************)
InitAgain ==
  /\ initialized
  /\ "again" \in Misuse
  /\ verbose' = Defaults["verbose"]
  /\ slips' = slips \cup {"again"}
  /\ UNCHANGED <<initialized, interpreter, device, mems, progs, profile_level,
                 asked, stuck>>

Tries(c) ==
  /\ ~initialized
  /\ asked' = c
  /\ UNCHANGED <<mems, progs, stuck>>

Fails == slips' = slips \cup {"failed"} /\ UNCHANGED initialized

InitRefuses(c) ==
  /\ Tries(c) /\ Fails
  /\ ~Accepts(c.argv, c.env)
  /\ verbose' = Defaults["verbose"]
  /\ UNCHANGED <<interpreter, device, profile_level>>

InitWithoutPython(c) ==
  /\ Tries(c) /\ Fails
  /\ Accepts(c.argv, c.env)
  /\ verbose' = Defaults["verbose"]
  /\ python' = TRUE
  /\ \/ path' \in {path, WithDir(path, "")} /\ UNCHANGED strings
     \/ path' = WithDirs(path, c) /\ strings' \in {strings, TRUE}
  /\ UNCHANGED <<context, script, device, profile_level>>

\* nomp_py_init() and what follows have succeeded.
HasPython(c) ==
  /\ Tries(c)
  /\ Accepts(c.argv, c.env)
  /\ python' = TRUE /\ strings' = TRUE
  /\ path' = WithDirs(path, c)
  /\ profile_level' = Number(c.argv, c.env, "profile")
  /\ verbose' = Number(c.argv, c.env, "verbose")

InitWithoutScript(c) ==
  /\ HasPython(c) /\ Fails
  /\ Scripted(c)
  /\ UNCHANGED <<context, script, device>>

\* nomp_py_set_annotate_func(): without a script, nothing is set.
HasScript(c) ==
  /\ HasPython(c)
  /\ IF Scripted(c)
     THEN annotate' = Script(c) /\ origin' \in FoundIn(path', Script(c))
     ELSE UNCHANGED script
  /\ context' = TRUE

\* The backend is refused, or fails with or without its device context.
InitWithoutBackend(c) ==
  /\ HasScript(c) /\ Fails
  /\ contexts' \in {contexts} \cup {contexts \cup {x} : x \in Contexts \ contexts}
  /\ UNCHANGED <<bptr, scratch>>

HasBackend(c) ==
  /\ HasScript(c)
  /\ \E x \in Contexts \ contexts : bptr' = x /\ contexts' = contexts \cup {x}

\* Broken: the flag is set before everything is there.
InitWithoutScratchUp(c) ==
  /\ HasBackend(c)
  /\ initialized' = TRUE
  /\ UNCHANGED <<scratch, slips>>

InitWithoutScratch(c) ==
  /\ HasBackend(c) /\ Fails
  /\ UNCHANGED scratch

Initialize(c) ==
  /\ HasBackend(c)
  /\ scratch' = TRUE
  /\ initialized' = TRUE
  /\ UNCHANGED slips

TryToInit(c) ==
  \/ InitRefuses(c) \/ InitWithoutPython(c) \/ InitWithoutScript(c)
  \/ InitWithoutBackend(c) \/ InitWithoutScratch(c) \/ Initialize(c)

(***************************************************************************)
(* The session: nomp_update() and nomp_jit().                              *)
(***************************************************************************)
Use ==
  /\ initialized /\ ~stuck
  /\ mems' \in 0 .. MaxObjects /\ progs' \in progs .. MaxObjects
  /\ UNCHANGED <<initialized, interpreter, device, settings, asked, stuck, slips>>

(***************************************************************************)
(* nomp_finalize(), and nomp_finalize_excluding_interpreter().             *)
(***************************************************************************)
\* Broken: the annotation script of the session stays.
FinalizesAnnotating ==
  /\ initialized
  /\ stuck => "retry" \in Misuse
  /\ scratch \/ FreesNull
  /\ context' = FALSE
  /\ UNCHANGED <<script, settings, asked>>

\* What precedes every error.  A buffer that is NULL because of an earlier
\* nomp_finalize() is freed again, which OpenCL does not survive: left out.
Finalizes ==
  /\ initialized
  /\ stuck => "retry" \in Misuse
  /\ scratch \/ FreesNull
  /\ annotate' = None /\ origin' = None /\ context' = FALSE
  /\ UNCHANGED <<settings, asked>>

Stops ==
  /\ Finalizes
  /\ stuck' = TRUE
  /\ UNCHANGED <<initialized, bptr, contexts, path, slips>>

\* Some slices, then some programs, are freed before the driver refuses one.
FinalizeStopsAtMem ==
  /\ Stops
  /\ mems' \in 1 .. mems
  /\ UNCHANGED <<progs, scratch, python, strings>>

FinalizeStopsAtScratch ==
  /\ Stops
  /\ mems' = 0
  /\ UNCHANGED <<progs, scratch, python, strings>>

FinalizeStopsAtProg ==
  /\ Stops
  /\ mems' = 0 /\ scratch' = FALSE
  /\ progs' \in 1 .. progs
  /\ UNCHANGED <<python, strings>>

\* Broken: the interpreter stays, whatever is asked for.
FreesAllButPython(withPython) ==
  /\ Finalizes
  /\ mems' = 0 /\ scratch' = FALSE /\ progs' = 0
  /\ strings' = FALSE
  /\ slips' = IF withPython THEN slips \ {"kept"} ELSE slips \cup {"kept"}
  /\ UNCHANGED <<python, path>>

\* All is freed but the device context.
FreesAll(withPython) ==
  /\ Finalizes
  /\ mems' = 0 /\ scratch' = FALSE /\ progs' = 0
  /\ strings' = FALSE
  /\ python' = (python /\ ~withPython)
  /\ path' = IF withPython THEN <<>> ELSE path
  /\ slips' = IF withPython THEN slips \ {"kept"} ELSE slips \cup {"kept"}

\* Broken: is not initialized any more, whatever the backend says.
FinalizeStopsDown(withPython) ==
  /\ FreesAll(withPython)
  /\ initialized' = FALSE
  /\ stuck' = TRUE
  /\ UNCHANGED <<bptr, contexts>>

FinalizeStopsAtBackend(withPython) ==
  /\ FreesAll(withPython)
  /\ stuck' = TRUE
  /\ UNCHANGED <<initialized, bptr, contexts>>

\* Broken: forgets the device context.
FinalizeLosing(withPython) ==
  /\ FreesAll(withPython)
  /\ initialized' = FALSE /\ stuck' = FALSE
  /\ bptr' = None
  /\ UNCHANGED contexts

Finalize(withPython) ==
  /\ FreesAll(withPython)
  /\ initialized' = FALSE /\ stuck' = FALSE
  /\ contexts' = contexts \ {bptr} /\ bptr' = None

TryToFinalize ==
  \/ FinalizeStopsAtMem \/ FinalizeStopsAtScratch \/ FinalizeStopsAtProg
  \/ \E withPython \in BOOLEAN :
       FinalizeStopsAtBackend(withPython) \/ Finalize(withPython)

(***************************************************************************)
(* The specification.                                                      *)
(***************************************************************************)
Init ==
  /\ initialized = FALSE
  /\ python = FALSE /\ strings = FALSE /\ context = FALSE
  /\ path = <<>> /\ annotate = None /\ origin = None
  /\ bptr = None /\ contexts = {} /\ scratch = FALSE
  /\ mems = 0 /\ progs = 0
  /\ verbose = 0 /\ profile_level = 0
  /\ asked \in [argv : {<<>>}, env : {[f \in {} |-> NoWord]}]
  /\ stuck = FALSE /\ slips = {}

Next ==
  \/ \E c \in InitCalls : TryToInit(c)
  \/ InitAgain
  \/ Use
  \/ TryToFinalize

Spec == Init /\ [][Next]_vars

(***************************************************************************)
(* Safety.                                                                 *)
(***************************************************************************)
TypeOK ==
  /\ {initialized, python, strings, context, scratch, stuck} \subseteq BOOLEAN
  /\ path \in Seq(Dirs)
  /\ annotate \in Words \cup {None}
  /\ origin \in Dirs \cup {None}
  /\ bptr \in Contexts \cup {None}
  /\ contexts \subseteq Contexts
  /\ {mems, progs, verbose, profile_level} \subseteq Nat
  /\ asked.argv \in CommandLines \cup {<<>>}
  /\ slips \subseteq {"again", "failed", "kept"}

\* While libnomp is initialized, and no nomp_finalize() has failed, everything
\* nomp_update(), nomp_jit() and nomp_run() rely on is there, whichever calls of
\* nomp_init() failed, and however far they got.
UpMeansReady ==
  initialized /\ ~stuck =>
    /\ python /\ strings /\ context
    /\ bptr \in contexts
    /\ scratch

\* While libnomp is not initialized there is nothing nomp_finalize() would have
\* to free -- and it returns at once -- except what failed calls of nomp_init()
\* left.
DownMeansEmpty ==
  ~initialized =>
    /\ mems = 0 /\ progs = 0 /\ ~scratch /\ ~stuck
    /\ "failed" \notin slips =>
         /\ bptr = None /\ contexts = {}
         /\ annotate = None /\ ~context /\ ~strings

\* A command line that can be read in one way: a value follows each option.
Unambiguous(argv) ==
  \A i \in DOMAIN argv : OptionOf[argv[i]] # NoWord =>
    i + 1 \in DOMAIN argv /\ OptionOf[argv[i + 1]] = NoWord

\* What is written there for a field: its variable, or its last option.
Written(c, f) ==
  IF f \in DOMAIN c.env THEN {c.env[f]}
  ELSE {c.argv[i + 1] : i \in {j \in DOMAIN c.argv :
          /\ OptionOf[c.argv[j]] = f
          /\ \A k \in DOMAIN c.argv : OptionOf[c.argv[k]] = f => k <= j}}

\* v is the number that is written, up to multiples of 2^32 that are cut, or
\* the default.
ReadsAs(v, c, f) ==
  IF Written(c, f) = {} THEN v = Defaults[f]
  ELSE \E w \in Written(c, f) : /\ NumberOf[w] # NoWord
                                /\ (v - NumberOf[w]) % (2 * IntEnd) = 0

\* Kernels are annotated by a script of the working directory, which is searched
\* first, or of the directory this session has its scripts in.
ScriptIsOfThisSession == annotate # None => origin \in {"", ScriptsDir(asked)}

\* A session runs with the verbose and profile levels and the annotation script
\* that its own command line and environment name, and none that earlier
\* sessions and calls of nomp_init() left behind, with three exceptions the code
\* has: a nomp_init() that is refused because there is a session resets the
\* verbose level; the script of a nomp_init() that failed annotates a session
\* that names none; and an interpreter that was used before, by such a call or
\* a session that kept it, searches the scripts directories of that time first.
SettingsAreOfThisSession ==
  initialized /\ ~stuck /\ Unambiguous(asked.argv) =>
    /\ "again" \notin slips => ReadsAs(verbose, asked, "verbose")
    /\ ReadsAs(profile_level, asked, "profile")
    /\ IF annotate = None \/ "failed" \in slips
       THEN Written(asked, "annotations_script") \subseteq {"", annotate}
       ELSE Written(asked, "annotations_script") = {annotate}
    /\ slips \cap {"failed", "kept"} = {} => ScriptIsOfThisSession

\* Also one that kept the interpreter of an earlier session has its scripts from
\* the directory that is set for it, if all its calls of nomp_init() succeeded:
\* "Specify the directory containing" them, and "this method is useful when
\* libnomp has to be re-initialized multiple times".
ScriptIsFromItsDirectory ==
  initialized /\ "failed" \notin slips => ScriptIsOfThisSession

\* A device context is lost only by a nomp_init() that fails, or that follows
\* one that did: never by a nomp_finalize(), failed and retried or not.
LosesOnlyFailedInits ==
  \/ contexts' \ {bptr'} \subseteq contexts \ {bptr}
  \/ ~initialized /\ "failed" \in slips'

ContextsLostOnlyByInit == [][LosesOnlyFailedInits]_vars
=============================================================================
