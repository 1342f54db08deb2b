------------------------------ MODULE DebugFiles ------------------------------
(***************************************************************************)
(* The debug info and the source of the running kernel: the entry of its   *)
(* build ID in the debuginfod cache, and the runs of kexplore that fill,   *)
(* check, clean and use it (kexplore/core/debuginfod.py, the attach in     *)
(* kexplore/__main__.py, KernelSource in kexplore/core/source.py).  Runs   *)
(* share the cache and nothing else; each may be killed at any step.       *)
(* libdebuginfod and drgn are modelled by what they do to the entry.       *)
(***************************************************************************)
EXTENDS Integers, FiniteSets

CONSTANTS
    Procs,      \* the processes kexplore may run in
    MaxRuns,    \* bound: runs started
    Machines,   \* [local, root, urls]: a debug package is installed, a source
                \* tree is given, a debuginfod server is configured
    Prefixes    \* bound: requests that look for the source prefix (six)

ASSUME DebugFilesAssumption ==
    /\ MaxRuns \in Nat /\ Prefixes \in Nat
    /\ Machines \subseteq [local: BOOLEAN, root: BOOLEAN, urls: BOOLEAN]
    /\ "left" \notin Procs

VARIABLES
    machine,    \* what the machine has
    file,       \* <build id>/debuginfo: the file at its final name
    invalid,    \* <build id>/debuginfo.invalid is there
    partial,    \* debuginfo.XXXXXX of each process, and one left by a dead one
    run,        \* what each process does
    src,        \* its KernelSource
    started,    \* runs started
    promised,   \* a prefetch has reported that it is complete
    overlapped  \* two runs have been there at once

vars == <<machine, file, invalid, partial, run, src, started, promised, overlapped>>
cache == <<file, invalid, partial>>
ghosts == <<machine, started, promised, overlapped>>

Modes == {"prefetch", "online", "offline", "attach"}  \* attach: --no-prefetch
Calls == {"gate", "held", "lacking", "before", "after", "report"}
Places == {"idle", "configure", "unlink", "stat", "verify", "rename", "clean", "fetch",
           "attach", "transfer", "report", "probe", "prefix", "exploring"}

Idle == [mode |-> "prefetch", at |-> "idle", call |-> "gate"]
NoSource == [debuginfo |-> FALSE, prefix |-> "?", tried |-> 0, late |-> FALSE,
             deadline |-> FALSE, given |-> FALSE, declaration |-> "?", text |-> "?",
             refused |-> FALSE]

At(p, place) == run[p].at = place
Go(p, place) == run' = [run EXCEPT ![p].at = place]
\* is_cached is called, and its answer goes back to the caller.
Ask(p, c) == run' = [run EXCEPT ![p].at = "stat", ![p].call = c]
End(p) == run' = [run EXCEPT ![p] = Idle]

\* DEBUGINFOD_URLS names a server: configure replaces it for an offline run.
Online(p) == machine.urls /\ run[p].mode # "offline"

---------------------------------------------------------------------------
(* The start of a run *)

Start(p, mode) ==
    /\ At(p, "idle") /\ started < MaxRuns
    /\ run' = [run EXCEPT ![p] = [mode |-> mode, at |-> "configure", call |-> "gate"]]
    /\ src' = [src EXCEPT ![p] = NoSource]
    /\ started' = started + 1
    /\ overlapped' = (overlapped \/ \E q \in Procs \ {p} : ~ At(q, "idle"))
    /\ UNCHANGED <<cache, machine, promised>>

\* Where a run goes once the cache is configured; a debug package on the
\* machine answers every question about the cache.
Configured(p) ==
    IF machine.local
    THEN IF run[p].mode = "prefetch" THEN End(p) ELSE Go(p, "attach")
    ELSE Ask(p, IF run[p].mode = "prefetch" THEN "before" ELSE "gate")

\* Mistake: empty entries are left in the cache.
ConfigureOnly(p) ==
    /\ At(p, "configure") /\ Configured(p)
    /\ UNCHANGED <<cache, src, ghosts>>

\* configure, clear_empty_entries: stat says the entry is empty, ...
Configure(p) ==
    /\ At(p, "configure")
    /\ IF file = "empty" THEN Go(p, "unlink") ELSE Configured(p)
    /\ UNCHANGED <<cache, src, ghosts>>

\* ... and it is deleted, whatever it is by then.
Unlink(p) ==
    /\ At(p, "unlink") /\ file' = "none" /\ Configured(p)
    /\ UNCHANGED <<invalid, partial, src, ghosts>>

---------------------------------------------------------------------------
(* is_cached *)

\* prefetch has its file: it returns to the command line or to the attach.
Prefetched(p) == IF run[p].mode = "prefetch" THEN End(p) ELSE Go(p, "attach")

\* What the caller does with the answer.
Answer(p, yes) ==
    /\ CASE run[p].call = "gate" /\ yes -> Ask(p, "held")
         [] run[p].call = "gate" /\ ~ yes /\ run[p].mode = "online" -> Ask(p, "before")
         [] run[p].call = "gate" /\ ~ yes /\ run[p].mode # "online" -> Ask(p, "lacking")
         [] run[p].call = "held" -> Go(p, "attach")
         [] run[p].call = "lacking" ->
              IF run[p].mode = "offline" THEN End(p) ELSE Go(p, "attach")
         [] run[p].call \in {"before", "after"} /\ yes -> Prefetched(p)
         [] run[p].call = "before" /\ ~ yes -> Go(p, "clean")
         [] run[p].call = "after" /\ ~ yes -> End(p)
         [] run[p].call = "report" -> End(p)
    /\ promised' = (promised \/ (yes /\ run[p].call \in {"before", "after"}))

Stat(p) ==
    /\ At(p, "stat")
    /\ IF file \in {"none", "empty"}
       THEN Answer(p, FALSE)
       ELSE Go(p, "verify") /\ UNCHANGED promised
    /\ UNCHANGED <<cache, src, machine, started, overlapped>>

\* Mistake: a readelf that does not answer is taken for a bad file.
VerifyOrRename(p) ==
    /\ At(p, "verify")
    /\ \/ (file = "good" /\ Answer(p, TRUE))
       \/ (Go(p, "rename") /\ UNCHANGED promised)
    /\ UNCHANGED <<cache, src, machine, started, overlapped>>

\* readelf and the build ID; it may take longer than its 30 s.
Verify(p) ==
    /\ At(p, "verify")
    /\ \/ (file = "good" /\ Answer(p, TRUE))
       \/ (file # "good" /\ Go(p, "rename") /\ UNCHANGED promised)
       \/ Answer(p, FALSE)
    /\ UNCHANGED <<cache, src, machine, started, overlapped>>

\* What is there by now is put aside.
Rename(p) ==
    /\ At(p, "rename")
    /\ file' = "none" /\ invalid' = (invalid \/ file # "none")
    /\ Answer(p, FALSE)
    /\ UNCHANGED <<partial, src, machine, started, overlapped>>

---------------------------------------------------------------------------
(* Downloads *)

\* clear_partials, then the test of DEBUGINFOD_URLS.  A transfer of another
\* run that has been stalled for four hours is taken for an abandoned one.
CleanPartials(p) ==
    /\ At(p, "clean")
    /\ partial' = [x \in DOMAIN partial |-> IF partial[x] = "old" THEN "none" ELSE partial[x]]
    /\ IF Online(p) THEN Go(p, "fetch") ELSE End(p)
    /\ UNCHANGED <<file, invalid, src, ghosts>>

\* Mistake: the exit status of debuginfod-find is believed.
FoundUnchecked(p, yes, now) ==
    /\ IF yes THEN Prefetched(p) ELSE End(p)
    /\ promised' = (promised \/ yes)

\* debuginfod-find has returned.
Found(p, yes, now) ==
    /\ IF yes THEN Ask(p, "after") ELSE End(p)
    /\ UNCHANGED promised

\* drgn has read the debug info, or goes on without it.
Attached(p, yes, now) ==
    /\ Go(p, IF machine.local \/ (yes /\ now = "good") THEN "probe" ELSE "report")
    /\ UNCHANGED promised

Returned(p, yes, now) ==
    IF run[p].call = "after" THEN Found(p, yes, now) ELSE Attached(p, yes, now)

\* libdebuginfod answers from an entry, or starts a download.  `call` tells the
\* transfers of debuginfod-find ("after") from those of the attach ("held").
Look(p) ==
    /\ \E place \in {"fetch", "attach"} :
        /\ At(p, place)
        /\ IF machine.local \/ file # "none" \/ ~ Online(p)
           THEN /\ IF place = "fetch" THEN Found(p, file \in {"good", "bad"}, file)
                   ELSE Attached(p, file \in {"good", "bad"}, file)
                /\ UNCHANGED partial
           ELSE /\ partial' = [partial EXCEPT ![p] = "fresh"]
                /\ run' = [run EXCEPT ![p].at = "transfer",
                                      ![p].call = IF place = "fetch" THEN "after" ELSE "held"]
                /\ UNCHANGED promised
    /\ UNCHANGED <<file, invalid, src, machine, started, overlapped>>

\* The partial file gets its final name, whatever the server sent.
Complete(p) ==
    /\ At(p, "transfer") /\ partial[p] # "none"
    /\ partial' = [partial EXCEPT ![p] = "none"]
    /\ \E sent \in {"good", "bad"} : file' = sent /\ Returned(p, TRUE, sent)
    /\ UNCHANGED <<invalid, src, machine, started, overlapped>>

\* The server does not have it (404): an empty entry says so to later queries.
NotFound(p) ==
    /\ At(p, "transfer")
    /\ partial' = [partial EXCEPT ![p] = "none"]
    /\ file' = IF file = "none" THEN "empty" ELSE file
    /\ Returned(p, FALSE, file)
    /\ UNCHANGED <<invalid, src, machine, started, overlapped>>

\* The connection is lost, or the partial file is not there any more.
TransferFails(p) ==
    /\ At(p, "transfer")
    /\ partial' = [partial EXCEPT ![p] = "none"]
    /\ Returned(p, FALSE, file)
    /\ UNCHANGED <<file, invalid, src, machine, started, overlapped>>

Left(p) == [partial EXCEPT ![p] = "none",
                           !["left"] = IF partial[p] = "none" THEN @ ELSE partial[p]]

\* Ctrl-C, or the run is killed at any step: its partial file stays.
Killed(p) ==
    /\ ~ At(p, "idle") /\ End(p) /\ partial' = Left(p)
    /\ UNCHANGED <<file, invalid, src, ghosts>>

\* No byte for four hours.
Age(x) ==
    /\ partial[x] = "fresh" /\ partial' = [partial EXCEPT ![x] = "old"]
    /\ UNCHANGED <<file, invalid, run, src, ghosts>>

\* The attach found no debug info: the report looks at what is in the cache.
Report(p) ==
    /\ At(p, "report")
    /\ IF \E x \in DOMAIN partial : partial[x] # "none" THEN End(p) ELSE Ask(p, "report")
    /\ UNCHANGED <<cache, src, ghosts>>

---------------------------------------------------------------------------
(* KernelSource *)

Set(p, field, value) == src' = [src EXCEPT ![p][field] = value]

\* _find: None once the deadline is over; otherwise the program is asked, and
\* its answer may be None too.
Refused(p) == src[p].deadline /\ src[p].late

\* _probe_source: one deadline for everything up to Accept.
Probe(p) ==
    /\ At(p, "probe")
    /\ \E found \in {machine.local \/ file \in {"good", "bad"}} :
        /\ src' = [src EXCEPT ![p].debuginfo = found, ![p].deadline = TRUE]
        /\ Go(p, IF found THEN "prefix" ELSE "exploring")
    /\ UNCHANGED <<cache, ghosts>>

\* The five seconds of the probe are over.
Late(p) ==
    /\ src[p].deadline /\ ~ src[p].late /\ run[p].at \in {"prefix", "exploring"}
    /\ Set(p, "late", TRUE)
    /\ UNCHANGED <<cache, run, ghosts>>

\* Mistake: the source keeps the deadline of the probe.
AcceptAsItIs(s) == [s EXCEPT !.given = TRUE, !.prefix = "found"]

\* The probe found what it needs: the source is given to the explorer.
Accept(s) == [s EXCEPT !.given = TRUE, !.prefix = "found", !.deadline = FALSE]

\* source_prefix: the candidates are tried in turn; `available` remembers the
\* answer.  A tree that was given is looked at instead.
ProbePrefix(p) ==
    /\ At(p, "prefix")
    /\ \/ /\ machine.root \/ (~ Refused(p) /\ src[p].tried < Prefixes)
          /\ src' = [src EXCEPT ![p] = Accept(@)] /\ Go(p, "exploring")
       \/ /\ ~ machine.root /\ src[p].tried < Prefixes
          /\ src' = [src EXCEPT ![p].tried = @ + 1] /\ UNCHANGED run
       \/ /\ machine.root \/ src[p].tried = Prefixes
          /\ src' = [src EXCEPT ![p].prefix = "none", ![p].deadline = FALSE]
          /\ Go(p, "exploring")
    /\ UNCHANGED <<cache, ghosts>>

\* declaration: pahole on the debug image; the answer is kept, None as well.
Declaration(p) ==
    /\ At(p, "exploring") /\ src[p].given /\ src[p].declaration = "?"
    /\ \E answer \in {"found", "none"} : Set(p, "declaration", answer)
    /\ UNCHANGED <<cache, run, ghosts>>

\* read and local_file, for the file a declaration is in.
Read(p) ==
    /\ At(p, "exploring") /\ src[p].declaration = "found" /\ src[p].text = "?"
    /\ \E answer \in {"found", "none"} :
        /\ Refused(p) => answer = "none"
        /\ src' = [src EXCEPT ![p].text = answer, ![p].refused = Refused(p)]
    /\ UNCHANGED <<cache, run, ghosts>>

Quit(p) ==
    /\ At(p, "exploring") /\ End(p)
    /\ UNCHANGED <<cache, src, ghosts>>

---------------------------------------------------------------------------
Init ==
    /\ machine \in Machines
    /\ file \in {"none", "empty", "bad"} /\ invalid = FALSE
    /\ partial = [x \in Procs \cup {"left"} |-> "none"]
    /\ run = [p \in Procs |-> Idle] /\ src = [p \in Procs |-> NoSource]
    /\ started = 0 /\ promised = FALSE /\ overlapped = FALSE

Step(p) ==
    \/ Configure(p) \/ Unlink(p) \/ Stat(p) \/ Verify(p) \/ Rename(p)
    \/ CleanPartials(p) \/ Look(p) \/ Complete(p) \/ NotFound(p) \/ TransferFails(p)
    \/ Report(p) \/ Probe(p) \/ ProbePrefix(p)

Next ==
    \/ \E p \in Procs : \/ Step(p) \/ Killed(p) \/ Late(p)
                        \/ Declaration(p) \/ Read(p) \/ Quit(p)
                        \/ \E mode \in Modes : Start(p, mode)
    \/ \E x \in DOMAIN partial : Age(x)

Spec == Init /\ [][Next]_vars

---------------------------------------------------------------------------
Run == [mode: Modes, at: Places, call: Calls]
Source == [debuginfo: BOOLEAN, prefix: {"?", "none", "found"}, tried: 0..Prefixes,
           late: BOOLEAN, deadline: BOOLEAN, given: BOOLEAN,
           declaration: {"?", "none", "found"}, text: {"?", "none", "found"},
           refused: BOOLEAN]

\* Every variable has its type.
TypeOK ==
    /\ machine \in Machines
    /\ file \in {"none", "empty", "good", "bad"} /\ invalid \in BOOLEAN
    /\ partial \in [Procs \cup {"left"} -> {"none", "fresh", "old"}]
    /\ run \in [Procs -> Run]
    /\ src \in [Procs -> Source]
    /\ started \in 0..MaxRuns /\ promised \in BOOLEAN /\ overlapped \in BOOLEAN

\* After a prefetch that reported success every later run finds the file, as
\* long as one run at a time uses the cache (prefetch, "every later run,
\* including --offline runs, is served from the cache").
ServedLater == promised /\ ~ overlapped => file = "good"

\* The same of runs that may be there at once, as the text says it.
ServedLaterAlways == promised => file = "good"

\* A complete file is lost only to two runs at once: none of the checks, and
\* no kill between two steps of one, throws away what was downloaded.
GoodIsKept == [][file = "good" /\ file' # "good" => overlapped]_vars

\* An empty entry that an earlier run left, killed or told 404, refuses neither
\* the download of this one nor the one of its attach, whichever way it got
\* there (clear_empty_entries, "an empty entry prevents every later fetch").
FetchNotRefused ==
    \A p \in Procs :
        (At(p, "fetch") \/ At(p, "attach")) /\ file = "empty" => overlapped

\* A source that was accepted at startup is asked, each time, for what it is
\* to find: the deadline of the startup probe refuses nothing later on.
NothingRefused == \A p \in Procs : src[p].given => ~ src[p].refused /\ src[p].debuginfo

===============================================================================
