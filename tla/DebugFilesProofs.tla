--------------------------- MODULE DebugFilesProofs ---------------------------
(***************************************************************************)
(* For any number of processes and runs: an empty entry of the cache       *)
(* refuses no download, a good one is lost only to two runs at once, what  *)
(* prefetch promised is there, and an accepted source is asked.            *)
(***************************************************************************)
EXTENDS DebugFiles, TLAPS

\* A run knows what is in the cache as long as it is alone there: at each place
\* the file is what the last look at it showed.
FileAsSeen(p) ==
    /\ At(p, "unlink") => file = "empty"
    /\ At(p, "verify") => file \in {"good", "bad"}
    /\ At(p, "rename") => file = "bad"
    /\ At(p, "transfer") => file = "none"
    /\ At(p, "clean") \/ At(p, "fetch") \/ At(p, "attach") => file # "empty"
    /\ At(p, "stat") /\ run[p].call # "report" => file # "empty"

Alone == \A p, q \in Procs : p # q => At(p, "idle") \/ At(q, "idle")

EntryInv ==
    ~ overlapped =>
        /\ Alone
        /\ \A p \in Procs : FileAsSeen(p)
        /\ promised => file = "good"

\* Only a transfer has a partial file.
TransferInv == \A p \in Procs : partial[p] # "none" => At(p, "transfer")

\* A source is given once, when its deadline is lifted, and is asked only then.
SourceOf(p) ==
    /\ src[p].given => /\ run[p].at \in {"exploring", "idle"}
                       /\ ~ src[p].deadline /\ src[p].debuginfo
    /\ At(p, "prefix") => src[p].debuginfo
    /\ src[p].declaration = "found" => src[p].given
    /\ ~ src[p].refused

SourceInv == \A p \in Procs : SourceOf(p)

Inv == TypeOK /\ EntryInv /\ TransferInv /\ SourceInv

---------------------------------------------------------------------------
(* What a step of one run leaves to be shown *)

OthersStay(p) == \A q \in Procs \ {p} : run'[q] = run[q] /\ src'[q] = src[q]

\* All there is to say of a step of p that starts no run.
StepOK(p) ==
    /\ TypeOK' /\ OthersStay(p)
    /\ overlapped' = overlapped /\ ~ At(p, "idle")
    /\ ~ overlapped => FileAsSeen(p)' /\ (promised' => file' = "good")
    /\ \A q \in Procs : partial'[q] # "none" => q = p \/ partial[q] # "none"
    /\ partial'[p] # "none" => At(p, "transfer")'
    /\ SourceOf(p)'

LEMMA StepKeeps ==
    ASSUME Inv, NEW p \in Procs, StepOK(p)
    PROVE  Inv'
  <1>1. EntryInv'
    <2> SUFFICES ASSUME ~ overlapped
                 PROVE  /\ Alone' /\ \A q \in Procs : FileAsSeen(q)'
                        /\ promised' => file' = "good"
      BY DEF StepOK, EntryInv
    <2>1. \A q \in Procs \ {p} : At(q, "idle") /\ At(q, "idle")'
      BY DEF Inv, EntryInv, Alone, StepOK, OthersStay, At
    <2>2. Alone'
      BY <2>1 DEF Alone, At
    <2>3. \A q \in Procs \ {p} : FileAsSeen(q)'
      BY <2>1 DEF FileAsSeen, At
    <2> QED
      BY <2>2, <2>3 DEF StepOK
  <1>2. TransferInv'
    BY DEF Inv, TransferInv, StepOK, OthersStay, At
  <1>3. SourceInv'
    <2> SUFFICES ASSUME NEW q \in Procs PROVE SourceOf(q)'
      BY DEF SourceInv
    <2>1. CASE q = p
      BY <2>1 DEF StepOK
    <2>2. CASE q # p
      BY <2>2 DEF StepOK, OthersStay, Inv, SourceInv, SourceOf, At
    <2> QED BY <2>1, <2>2
  <1> QED
    BY <1>1, <1>2, <1>3 DEF Inv, StepOK

---------------------------------------------------------------------------
(* The ways a run moves on *)

Moved(p, place, c) ==
    /\ run' \in [Procs -> Run] /\ \A q \in Procs \ {p} : run'[q] = run[q]
    /\ run'[p].at = place /\ run'[p].call = c /\ run'[p].mode = run[p].mode

LEMMA Goes ==
    ASSUME TypeOK, NEW p \in Procs, NEW place \in Places, Go(p, place)
    PROVE  Moved(p, place, run[p].call)
  BY DEF TypeOK, Run, Go, Moved

LEMMA Asks ==
    ASSUME TypeOK, NEW p \in Procs, NEW c \in Calls, Ask(p, c)
    PROVE  Moved(p, "stat", c)
  <1>1. run[p] \in Run /\ run \in [Procs -> Run]
    BY DEF TypeOK
  <1>2. run' = [run EXCEPT ![p] = [run[p] EXCEPT !.at = "stat", !.call = c]]
    BY <1>1 DEF Ask, Run
  <1>3. [run[p] EXCEPT !.at = "stat", !.call = c] \in Run
    BY <1>1 DEF Run, Places
  <1> QED
    BY <1>1, <1>2, <1>3 DEF Moved, Run

LEMMA Ends ==
    ASSUME TypeOK, NEW p \in Procs, End(p)
    PROVE  /\ run' \in [Procs -> Run] /\ \A q \in Procs \ {p} : run'[q] = run[q]
           /\ run'[p] = Idle
  BY DEF TypeOK, Run, End, Idle, Modes, Places, Calls

\* Where a step of p leads, with what the file is afterwards left open.
Leads(p, places) ==
    /\ run' \in [Procs -> Run] /\ \A q \in Procs \ {p} : run'[q] = run[q]
    /\ run'[p].at \in places
    /\ run'[p].at # "idle" => run'[p].mode = run[p].mode

LEMMA ConfiguredLeads ==
    ASSUME TypeOK, NEW p \in Procs, Configured(p)
    PROVE  Leads(p, {"idle", "attach", "stat"})
  <1>1. CASE machine.local /\ run[p].mode = "prefetch"
    BY <1>1, Ends DEF Configured, Leads, Idle
  <1>2. CASE machine.local /\ run[p].mode # "prefetch"
    BY <1>2, Goes DEF Configured, Leads, Moved, Places
  <1>3. CASE ~ machine.local
    BY <1>3, Asks DEF Configured, Leads, Moved, Calls
  <1> QED
    BY <1>1, <1>2, <1>3

LEMMA AnswerLeads ==
    ASSUME TypeOK, NEW p \in Procs, NEW yes \in BOOLEAN, Answer(p, yes)
    PROVE  /\ Leads(p, {"idle", "attach", "stat", "clean"})
           /\ ~ At(p, "idle")' => run[p].call # "report"
           /\ promised' \in BOOLEAN /\ (promised' => promised \/ yes)
  <1>1. promised' \in BOOLEAN /\ (promised' => promised \/ yes)
    BY DEF Answer, TypeOK
  <1>2. run[p].call \in Calls
    BY DEF TypeOK, Run
  <1>3. CASE run[p].call = "gate"
    <2>1. \E c \in {"held", "before", "lacking"} : Ask(p, c)
      BY <1>3 DEF Answer
    <2> QED
      BY <1>1, <1>3, <2>1, Asks DEF Leads, Moved, Calls, At
  <1>4. CASE run[p].call # "gate"
    <2>1. End(p) \/ (run[p].call # "report" /\ (Go(p, "attach") \/ Go(p, "clean")))
      BY <1>2, <1>4 DEF Answer, Calls, Prefetched
    <2> QED
      BY <1>1, <1>4, <2>1, Ends, Goes DEF Leads, Moved, Idle, Places, At
  <1> QED
    BY <1>3, <1>4

LEMMA ReturnedLeads ==
    ASSUME TypeOK, NEW p \in Procs, NEW yes \in BOOLEAN, NEW now, Returned(p, yes, now)
    PROVE  /\ Leads(p, {"idle", "stat", "probe", "report"})
           /\ At(p, "stat")' => yes
           /\ promised' = promised
  BY Ends, Goes, Asks
  DEF Returned, Found, Attached, Leads, Moved, Idle, Places, Calls, At

---------------------------------------------------------------------------
(* Every step of a run but its start *)

\* A step that leaves the source alone, and does not lead to its probe.
LEMMA SourceStays ==
    ASSUME Inv, NEW p \in Procs, ~ At(p, "idle"), src' = src,
           NEW places, Leads(p, places), "prefix" \notin places,
           At(p, "exploring") => places \subseteq {"exploring", "idle"}
    PROVE  SourceOf(p)' /\ OthersStay(p)
  BY DEF Inv, SourceInv, SourceOf, Leads, OthersStay, At

LEMMA ConfigureOK ==
    ASSUME Inv, NEW p \in Procs, Configure(p)
    PROVE  StepOK(p)
  <1>1. TypeOK /\ ~ At(p, "idle") /\ ~ At(p, "exploring")
    BY DEF Inv, Configure, At
  <1>2. Leads(p, {"idle", "attach", "stat", "unlink"}) /\ (At(p, "unlink")' => file = "empty")
    <2>1. CASE file = "empty"
      BY <1>1, <2>1, Goes DEF Configure, Leads, Moved, Places
    <2>2. CASE file # "empty"
      BY <1>1, <2>2, ConfiguredLeads DEF Configure, Leads, At
    <2> QED BY <2>1, <2>2
  <1>3. file' = file /\ (At(p, "stat")' \/ At(p, "attach")' => file # "empty")
    <2>1. CASE file = "empty"
      BY <1>1, <2>1, Goes DEF Configure, Moved, Places, At, cache
    <2> QED BY <2>1 DEF Configure, cache
  <1>4. TypeOK'
    BY <1>1, <1>2 DEF TypeOK, Configure, Leads, cache, ghosts
  <1>5. SourceOf(p)' /\ OthersStay(p)
    BY <1>1, <1>2, SourceStays DEF Configure
  <1> QED
    BY <1>1, <1>2, <1>3, <1>4, <1>5
    DEF StepOK, Inv, EntryInv, TransferInv, FileAsSeen, Configure, Leads, At, cache, ghosts

LEMMA UnlinkOK ==
    ASSUME Inv, NEW p \in Procs, Unlink(p)
    PROVE  StepOK(p)
  <1>1. TypeOK /\ ~ At(p, "idle") /\ ~ At(p, "exploring")
    BY DEF Inv, Unlink, At
  <1>2. Leads(p, {"idle", "attach", "stat"})
    BY <1>1, ConfiguredLeads DEF Unlink
  <1>3. TypeOK'
    BY <1>1, <1>2 DEF TypeOK, Unlink, Leads, ghosts
  <1>4. SourceOf(p)' /\ OthersStay(p)
    BY <1>1, <1>2, SourceStays DEF Unlink
  <1> QED
    BY <1>1, <1>2, <1>3, <1>4
    DEF StepOK, Inv, EntryInv, TransferInv, FileAsSeen, Unlink, Leads, At, ghosts

LEMMA StatOK ==
    ASSUME Inv, NEW p \in Procs, Stat(p)
    PROVE  StepOK(p)
  <1>1. TypeOK /\ ~ At(p, "idle") /\ ~ At(p, "exploring")
    BY DEF Inv, Stat, At
  <1>2. /\ Leads(p, {"idle", "attach", "stat", "clean", "verify"})
        /\ At(p, "verify")' => file \in {"good", "bad"}
        /\ run[p].call = "report" => At(p, "idle")' \/ At(p, "verify")'
        /\ promised' \in BOOLEAN /\ (promised' => promised)
    <2>1. CASE file \in {"none", "empty"}
      BY <1>1, <2>1, AnswerLeads DEF Stat, Leads, At
    <2>2. CASE file \notin {"none", "empty"}
      BY <1>1, <2>2, Goes DEF Stat, Leads, Moved, Places, TypeOK, At
    <2> QED BY <2>1, <2>2
  <1>3. TypeOK'
    BY <1>1, <1>2 DEF TypeOK, Stat, Leads, cache
  <1>4. SourceOf(p)' /\ OthersStay(p)
    BY <1>1, <1>2, SourceStays DEF Stat
  <1> QED
    BY <1>1, <1>2, <1>3, <1>4
    DEF StepOK, Inv, EntryInv, TransferInv, FileAsSeen, Stat, Leads, At, cache

LEMMA VerifyOK ==
    ASSUME Inv, NEW p \in Procs, Verify(p)
    PROVE  StepOK(p)
  <1>1. TypeOK /\ ~ At(p, "idle") /\ ~ At(p, "exploring")
    BY DEF Inv, Verify, At
  <1>2. /\ Leads(p, {"idle", "attach", "stat", "clean", "rename"})
        /\ At(p, "rename")' => file # "good"
        /\ promised' \in BOOLEAN /\ (promised' => promised \/ file = "good")
    <2>1. CASE file = "good" /\ Answer(p, TRUE)
      BY <1>1, <2>1, AnswerLeads DEF Leads, At
    <2>2. CASE file # "good" /\ Go(p, "rename") /\ UNCHANGED promised
      BY <1>1, <2>2, Goes DEF Leads, Moved, Places, TypeOK, At
    <2>3. CASE Answer(p, FALSE)
      BY <1>1, <2>3, AnswerLeads DEF Leads, At
    <2> QED BY <2>1, <2>2, <2>3 DEF Verify
  <1>3. TypeOK'
    BY <1>1, <1>2 DEF TypeOK, Verify, Leads, cache
  <1>4. SourceOf(p)' /\ OthersStay(p)
    BY <1>1, <1>2, SourceStays DEF Verify
  <1> QED
    BY <1>1, <1>2, <1>3, <1>4
    DEF StepOK, Inv, EntryInv, TransferInv, FileAsSeen, Verify, Leads, At, cache

LEMMA RenameOK ==
    ASSUME Inv, NEW p \in Procs, Rename(p)
    PROVE  StepOK(p)
  <1>1. TypeOK /\ ~ At(p, "idle") /\ ~ At(p, "exploring")
    BY DEF Inv, Rename, At
  <1>2. /\ Leads(p, {"idle", "attach", "stat", "clean"})
        /\ promised' \in BOOLEAN /\ (promised' => promised)
    BY <1>1, AnswerLeads DEF Rename
  <1>3. TypeOK'
    BY <1>1, <1>2 DEF TypeOK, Rename, Leads
  <1>4. SourceOf(p)' /\ OthersStay(p)
    BY <1>1, <1>2, SourceStays DEF Rename
  <1> QED
    BY <1>1, <1>2, <1>3, <1>4
    DEF StepOK, Inv, EntryInv, TransferInv, FileAsSeen, Rename, Leads, At

LEMMA CleanPartialsOK ==
    ASSUME Inv, NEW p \in Procs, CleanPartials(p)
    PROVE  StepOK(p)
  <1>1. TypeOK /\ ~ At(p, "idle") /\ ~ At(p, "exploring")
    BY DEF Inv, CleanPartials, At
  <1>2. Leads(p, {"idle", "fetch"})
    BY <1>1, Goes, Ends DEF CleanPartials, Leads, Moved, Idle, Places
  <1>3. TypeOK'
    BY <1>1, <1>2 DEF TypeOK, CleanPartials, Leads, ghosts
  <1>4. SourceOf(p)' /\ OthersStay(p)
    BY <1>1, <1>2, SourceStays DEF CleanPartials
  <1> QED
    BY <1>1, <1>2, <1>3, <1>4
    DEF StepOK, Inv, EntryInv, TransferInv, FileAsSeen, CleanPartials, Leads, At, TypeOK, ghosts

LEMMA LookOK ==
    ASSUME Inv, NEW p \in Procs, Look(p)
    PROVE  StepOK(p)
  <1>1. TypeOK /\ ~ At(p, "idle") /\ ~ At(p, "exploring")
    BY DEF Inv, Look, At
  <1>2. PICK place \in {"fetch", "attach"} :
            /\ At(p, place)
            /\ IF machine.local \/ file # "none" \/ ~ Online(p)
               THEN /\ IF place = "fetch" THEN Found(p, file \in {"good", "bad"}, file)
                       ELSE Attached(p, file \in {"good", "bad"}, file)
                    /\ UNCHANGED partial
               ELSE /\ partial' = [partial EXCEPT ![p] = "fresh"]
                    /\ run' = [run EXCEPT ![p].at = "transfer",
                                 ![p].call = IF place = "fetch" THEN "after" ELSE "held"]
                    /\ UNCHANGED promised
    BY DEF Look
  <1>3. CASE machine.local \/ file # "none" \/ ~ Online(p)
    <2>1. Leads(p, {"idle", "stat", "probe", "report"}) /\ partial' = partial
          /\ (At(p, "stat")' => file # "empty") /\ promised' = promised
      <3>1. CASE place = "fetch"
        BY <1>1, <1>2, <1>3, <3>1, Ends, Asks DEF Found, Leads, Moved, Idle, Calls, At
      <3>2. CASE place = "attach"
        BY <1>1, <1>2, <1>3, <3>2, Goes DEF Attached, Leads, Moved, Places, At
      <3> QED BY <1>2, <3>1, <3>2
    <2>2. TypeOK'
      BY <1>1, <2>1 DEF TypeOK, Look, Leads
    <2>3. SourceOf(p)' /\ OthersStay(p)
      BY <1>1, <2>1, SourceStays DEF Look
    <2> QED
      BY <1>1, <2>1, <2>2, <2>3
      DEF StepOK, Inv, EntryInv, TransferInv, FileAsSeen, Look, Leads, At
  <1>4. CASE ~ (machine.local \/ file # "none" \/ ~ Online(p))
    <2>1. /\ Leads(p, {"transfer"}) /\ partial' = [partial EXCEPT ![p] = "fresh"]
          /\ promised' = promised
      <3> DEFINE c == IF place = "fetch" THEN "after" ELSE "held"
      <3>1. run[p] \in Run /\ run \in [Procs -> Run]
        BY <1>1 DEF TypeOK
      <3>2. run' = [run EXCEPT ![p] = [run[p] EXCEPT !.at = "transfer", !.call = c]]
        BY <1>2, <1>4, <3>1 DEF Run
      <3>3. [run[p] EXCEPT !.at = "transfer", !.call = c] \in Run
        BY <3>1 DEF Run, Places, Calls
      <3> HIDE DEF c
      <3>4. Leads(p, {"transfer"})
        BY <3>1, <3>2, <3>3 DEF Leads, Run
      <3> QED
        BY <1>2, <1>4, <3>4
    <2>2. TypeOK'
      BY <1>1, <2>1 DEF TypeOK, Look, Leads
    <2>3. SourceOf(p)' /\ OthersStay(p)
      BY <1>1, <2>1, SourceStays DEF Look
    <2> QED
      BY <1>1, <1>4, <2>1, <2>2, <2>3
      DEF StepOK, Inv, EntryInv, TransferInv, FileAsSeen, Look, Leads, At, TypeOK
  <1> QED BY <1>3, <1>4

LEMMA CompleteOK ==
    ASSUME Inv, NEW p \in Procs, Complete(p)
    PROVE  StepOK(p)
  <1>1. TypeOK /\ ~ At(p, "idle") /\ ~ At(p, "exploring")
    BY DEF Inv, Complete, At
  <1>2. /\ Leads(p, {"idle", "stat", "probe", "report"})
        /\ promised' = promised /\ file' \in {"good", "bad"}
    BY <1>1, ReturnedLeads DEF Complete
  <1>3. TypeOK'
    BY <1>1, <1>2 DEF TypeOK, Complete, Leads
  <1>4. SourceOf(p)' /\ OthersStay(p)
    BY <1>1, <1>2, SourceStays DEF Complete
  <1> QED
    BY <1>1, <1>2, <1>3, <1>4
    DEF StepOK, Inv, EntryInv, TransferInv, FileAsSeen, Complete, Leads, At, TypeOK

LEMMA NotFoundOK ==
    ASSUME Inv, NEW p \in Procs, NotFound(p) \/ TransferFails(p)
    PROVE  StepOK(p)
  <1>1. TypeOK /\ ~ At(p, "idle") /\ ~ At(p, "exploring")
    BY DEF Inv, NotFound, TransferFails, At
  <1>2. /\ Leads(p, {"idle", "stat", "probe", "report"})
        /\ ~ At(p, "stat")' /\ promised' = promised
    BY <1>1, ReturnedLeads DEF NotFound, TransferFails
  <1>3. /\ file' \in {file, "empty"} /\ (file # "none" => file' = file)
        /\ partial' = [partial EXCEPT ![p] = "none"]
    BY DEF NotFound, TransferFails
  <1>4. TypeOK'
    BY <1>1, <1>2, <1>3 DEF TypeOK, NotFound, TransferFails, Leads
  <1>5. SourceOf(p)' /\ OthersStay(p)
    BY <1>1, <1>2, SourceStays DEF NotFound, TransferFails
  <1> QED
    BY <1>1, <1>2, <1>3, <1>4, <1>5
    DEF StepOK, Inv, EntryInv, TransferInv, FileAsSeen, NotFound, TransferFails, Leads, At, TypeOK

LEMMA KilledOK ==
    ASSUME Inv, NEW p \in Procs, Killed(p)
    PROVE  StepOK(p)
  <1>1. TypeOK /\ ~ At(p, "idle")
    BY DEF Inv, Killed, At
  <1>2. Leads(p, {"idle"})
    BY <1>1, Ends DEF Killed, Leads, Idle
  <1>3. /\ partial' \in [Procs \cup {"left"} -> {"none", "fresh", "old"}]
        /\ partial'[p] = "none" /\ \A q \in Procs \ {p} : partial'[q] = partial[q]
    BY <1>1, DebugFilesAssumption DEF Killed, Left, TypeOK
  <1>4. TypeOK'
    BY <1>1, <1>2, <1>3 DEF TypeOK, Killed, Leads, ghosts
  <1>5. SourceOf(p)' /\ OthersStay(p)
    BY <1>1, <1>2, SourceStays DEF Killed
  <1> QED
    BY <1>1, <1>2, <1>3, <1>4, <1>5
    DEF StepOK, Inv, EntryInv, TransferInv, FileAsSeen, Killed, Leads, At, ghosts

LEMMA ReportOK ==
    ASSUME Inv, NEW p \in Procs, Report(p) \/ Quit(p)
    PROVE  StepOK(p)
  <1>1. TypeOK /\ ~ At(p, "idle") /\ src' = src
    BY DEF Inv, Report, Quit, At
  <1>2. /\ Leads(p, {"idle", "stat"})
        /\ At(p, "stat")' => run'[p].call = "report"
        /\ At(p, "exploring") => Leads(p, {"idle"})
    BY <1>1, Asks, Ends DEF Report, Quit, Leads, Moved, Idle, Calls, At
  <1>3. TypeOK'
    BY <1>1, <1>2 DEF TypeOK, Report, Quit, Leads, cache, ghosts
  <1>4. SourceOf(p)' /\ OthersStay(p)
    BY <1>1, <1>2, SourceStays
  <1> QED
    BY <1>1, <1>2, <1>3, <1>4
    DEF StepOK, Inv, EntryInv, TransferInv, FileAsSeen, Report, Quit, Leads, At, cache, ghosts

---------------------------------------------------------------------------
(* Steps of a source *)

\* A step that sets the source of p, and goes on to the probe or the explorer.
Sets(p, place, s) ==
    /\ run' \in [Procs -> Run] /\ \A q \in Procs \ {p} : run'[q] = run[q]
    /\ run'[p].at = place /\ src' = [src EXCEPT ![p] = s]

LEMMA SetsOK ==
    ASSUME Inv, NEW p \in Procs, NEW place \in {"prefix", "exploring"}, NEW s \in Source,
           ~ At(p, "idle"), ~ At(p, "transfer"), UNCHANGED <<cache, ghosts>>, Sets(p, place, s),
           s.given => place = "exploring" /\ ~ s.deadline /\ s.debuginfo,
           place = "prefix" => s.debuginfo,
           s.declaration = "found" => s.given, ~ s.refused
    PROVE  StepOK(p)
  <1>1. TypeOK'
    BY DEF Inv, TypeOK, Sets, cache, ghosts
  <1>2. SourceOf(p)' /\ OthersStay(p)
    BY DEF Inv, TypeOK, Sets, SourceOf, OthersStay, At
  <1> QED
    BY <1>1, <1>2
    DEF StepOK, Inv, EntryInv, TransferInv, FileAsSeen, Sets, At, cache, ghosts

LEMMA ProbeOK ==
    ASSUME Inv, NEW p \in Procs, Probe(p)
    PROVE  StepOK(p)
  <1>1. /\ TypeOK /\ SourceOf(p) /\ At(p, "probe")
        /\ src[p] \in Source /\ src \in [Procs -> Source]
    BY DEF Inv, Probe, TypeOK, SourceInv
  <1>2. PICK found \in BOOLEAN :
            /\ src' = [src EXCEPT ![p].debuginfo = found, ![p].deadline = TRUE]
            /\ Go(p, IF found THEN "prefix" ELSE "exploring")
    BY DEF Probe
  <1> DEFINE s == [src[p] EXCEPT !.debuginfo = found, !.deadline = TRUE]
             place == IF found THEN "prefix" ELSE "exploring"
  <1>3. s \in Source /\ src' = [src EXCEPT ![p] = s]
    BY <1>1, <1>2 DEF Source
  <1>4. Sets(p, place, s)
    BY <1>1, <1>2, <1>3, Goes DEF Sets, Moved, Places
  <1>5. ~ src[p].given /\ ~ src[p].refused /\ src[p].declaration # "found"
    BY <1>1 DEF SourceOf, At
  <1>6. /\ s.given = src[p].given /\ s.refused = src[p].refused
        /\ s.declaration = src[p].declaration /\ s.debuginfo = found
    BY <1>1 DEF Source
  <1> HIDE DEF s
  <1> QED
    BY <1>1, <1>3, <1>4, <1>5, <1>6, SetsOK DEF Probe, At

LEMMA LateOK ==
    ASSUME Inv, NEW p \in Procs, Late(p)
    PROVE  StepOK(p)
  <1>1. /\ TypeOK /\ SourceOf(p) /\ run[p].at \in {"prefix", "exploring"}
        /\ src[p] \in Source /\ src \in [Procs -> Source] /\ src[p].deadline
    BY DEF Inv, Late, TypeOK, SourceInv
  <1> DEFINE s == [src[p] EXCEPT !.late = TRUE]
  <1>2. s \in Source /\ src' = [src EXCEPT ![p] = s]
    BY <1>1 DEF Source, Late, Set
  <1>3. Sets(p, run[p].at, s)
    BY <1>1, <1>2 DEF Sets, Late, TypeOK
  <1>4. /\ s.given = src[p].given /\ s.refused = src[p].refused
        /\ s.declaration = src[p].declaration /\ s.debuginfo = src[p].debuginfo
    BY <1>1 DEF Source
  <1> HIDE DEF s
  <1> QED
    BY <1>1, <1>2, <1>3, <1>4, SetsOK DEF Late, SourceOf, At

LEMMA ProbePrefixOK ==
    ASSUME Inv, NEW p \in Procs, ProbePrefix(p)
    PROVE  StepOK(p)
  <1>1. /\ TypeOK /\ SourceOf(p) /\ At(p, "prefix") /\ run \in [Procs -> Run]
        /\ src[p] \in Source /\ src \in [Procs -> Source]
    BY DEF Inv, ProbePrefix, TypeOK, SourceInv
  <1>2. /\ src[p].debuginfo /\ ~ src[p].given /\ ~ src[p].refused
        /\ src[p].declaration # "found"
    BY <1>1 DEF SourceOf, At
  <1>3. CASE src' = [src EXCEPT ![p] = Accept(@)] /\ Go(p, "exploring")
    <2> DEFINE s == Accept(src[p])
    <2>1. /\ s \in Source /\ s.given /\ ~ s.deadline /\ s.debuginfo /\ ~ s.refused
      BY <1>1, <1>2 DEF Source, Accept
    <2>2. Sets(p, "exploring", s)
      BY <1>1, <1>3, Goes DEF Sets, Moved, Places
    <2> HIDE DEF s
    <2> QED
      BY <1>1, <2>1, <2>2, SetsOK DEF ProbePrefix, At
  <1>4. CASE src[p].tried < Prefixes /\ src' = [src EXCEPT ![p].tried = @ + 1] /\ UNCHANGED run
    <2> DEFINE s == [src[p] EXCEPT !.tried = @ + 1]
    <2>1. /\ s \in Source /\ s.given = src[p].given /\ s.debuginfo = src[p].debuginfo
          /\ s.refused = src[p].refused /\ s.declaration = src[p].declaration
      BY <1>1, <1>4, DebugFilesAssumption DEF Source
    <2>2. Sets(p, "prefix", s)
      BY <1>1, <1>4 DEF Sets, At
    <2> HIDE DEF s
    <2> QED
      BY <1>1, <1>2, <2>1, <2>2, SetsOK DEF ProbePrefix, At
  <1>5. CASE /\ src' = [src EXCEPT ![p].prefix = "none", ![p].deadline = FALSE]
             /\ Go(p, "exploring")
    <2> DEFINE s == [src[p] EXCEPT !.prefix = "none", !.deadline = FALSE]
    <2>1. /\ s \in Source /\ src' = [src EXCEPT ![p] = s]
          /\ s.given = src[p].given /\ s.refused = src[p].refused
          /\ s.declaration = src[p].declaration
      BY <1>1, <1>5 DEF Source
    <2>2. Sets(p, "exploring", s)
      BY <1>1, <1>5, <2>1, Goes DEF Sets, Moved, Places
    <2> HIDE DEF s
    <2> QED
      BY <1>1, <1>2, <2>1, <2>2, SetsOK DEF ProbePrefix, At
  <1> QED
    BY <1>3, <1>4, <1>5 DEF ProbePrefix

LEMMA DeclarationOK ==
    ASSUME Inv, NEW p \in Procs, Declaration(p)
    PROVE  StepOK(p)
  <1>1. /\ TypeOK /\ SourceOf(p) /\ At(p, "exploring") /\ run \in [Procs -> Run]
        /\ src[p] \in Source /\ src \in [Procs -> Source]
    BY DEF Inv, Declaration, TypeOK, SourceInv
  <1>2. PICK answer \in {"found", "none"} : Set(p, "declaration", answer)
    BY DEF Declaration
  <1> DEFINE s == [src[p] EXCEPT !.declaration = answer]
  <1>3. /\ s \in Source /\ src' = [src EXCEPT ![p] = s]
        /\ s.given = src[p].given /\ s.debuginfo = src[p].debuginfo
        /\ s.refused = src[p].refused /\ s.deadline = src[p].deadline
    BY <1>1, <1>2 DEF Source, Set
  <1>4. Sets(p, "exploring", s)
    BY <1>1, <1>3 DEF Sets, At, Declaration
  <1> HIDE DEF s
  <1> QED
    BY <1>1, <1>3, <1>4, SetsOK DEF Declaration, SourceOf, At

LEMMA ReadOK ==
    ASSUME Inv, NEW p \in Procs, Read(p)
    PROVE  StepOK(p)
  <1>1. /\ TypeOK /\ SourceOf(p) /\ At(p, "exploring") /\ run \in [Procs -> Run]
        /\ src[p] \in Source /\ src \in [Procs -> Source]
    BY DEF Inv, Read, TypeOK, SourceInv
  <1>2. PICK answer \in {"found", "none"} :
            src' = [src EXCEPT ![p].text = answer, ![p].refused = Refused(p)]
    BY DEF Read
  <1>3. Refused(p) = FALSE
    BY <1>1 DEF Refused, Read, SourceOf
  <1> DEFINE s == [src[p] EXCEPT !.text = answer, !.refused = FALSE]
  <1>4. /\ s \in Source /\ src' = [src EXCEPT ![p] = s]
        /\ s.given = src[p].given /\ s.debuginfo = src[p].debuginfo
        /\ ~ s.refused /\ s.deadline = src[p].deadline
        /\ s.declaration = src[p].declaration
    BY <1>1, <1>2, <1>3 DEF Source
  <1>5. Sets(p, "exploring", s)
    BY <1>1, <1>4 DEF Sets, At, Read
  <1> HIDE DEF s
  <1> QED
    BY <1>1, <1>4, <1>5, SetsOK DEF Read, SourceOf, At

---------------------------------------------------------------------------
(* The invariant *)

LEMMA StartKeeps ==
    ASSUME Inv, NEW p \in Procs, NEW mode \in Modes, Start(p, mode)
    PROVE  Inv'
  <1>1. TypeOK /\ At(p, "idle") /\ partial[p] = "none"
    BY DEF Inv, Start, TransferInv, At, TypeOK
  <1>2. TypeOK'
    BY <1>1, DebugFilesAssumption
    DEF TypeOK, Start, Run, Source, NoSource, Places, Calls, cache
  <1>3. EntryInv'
    <2> SUFFICES ASSUME ~ overlapped' PROVE EntryInv'
      BY DEF EntryInv
    <2>1. ~ overlapped /\ \A q \in Procs \ {p} : At(q, "idle") /\ At(q, "idle")'
      BY <1>1 DEF Start, TypeOK, At
    <2>2. Alone'
      BY <2>1 DEF Alone
    <2>3. At(p, "configure")'
      BY <1>1 DEF Start, TypeOK, At
    <2>4. \A q \in Procs : FileAsSeen(q)'
      BY <2>1, <2>3 DEF FileAsSeen, At
    <2>5. promised' => file' = "good"
      BY <2>1 DEF Inv, EntryInv, Start, cache
    <2> QED
      BY <2>2, <2>4, <2>5 DEF EntryInv
  <1>4. TransferInv'
    BY <1>1 DEF Inv, TransferInv, Start, TypeOK, At, cache
  <1>5. SourceInv'
    BY <1>1 DEF Inv, SourceInv, SourceOf, Start, NoSource, TypeOK, At
  <1> QED
    BY <1>2, <1>3, <1>4, <1>5 DEF Inv

LEMMA AgeKeeps ==
    ASSUME Inv, NEW x \in DOMAIN partial, Age(x)
    PROVE  Inv'
  <1>1. TypeOK'
    BY DEF Inv, TypeOK, Age, ghosts
  <1>2. EntryInv'
    BY DEF Inv, EntryInv, Alone, FileAsSeen, At, Age, ghosts
  <1>3. TransferInv'
    BY DEF Inv, TypeOK, TransferInv, At, Age
  <1>4. SourceInv'
    BY DEF Inv, SourceInv, SourceOf, At, Age
  <1> QED
    BY <1>1, <1>2, <1>3, <1>4 DEF Inv

LEMMA InvInit == Init => Inv
  <1> SUFFICES ASSUME Init PROVE Inv
    OBVIOUS
  <1>1. TypeOK
    <2>1. Idle \in Run
      BY DEF Run, Idle, Modes, Places, Calls
    <2>2. NoSource \in Source
      BY DebugFilesAssumption DEF Source, NoSource
    <2>3. 0 \in 0..MaxRuns
      BY DebugFilesAssumption
    <2> QED
      BY <2>1, <2>2, <2>3 DEF Init, TypeOK
  <1> QED
    BY <1>1
    DEF Init, Inv, EntryInv, Alone, FileAsSeen, TransferInv, SourceInv, SourceOf, At, Idle, NoSource

LEMMA InvNext == Inv /\ [Next]_vars => Inv'
  <1> SUFFICES ASSUME Inv, [Next]_vars PROVE Inv'
    OBVIOUS
  <1>1. CASE \E p \in Procs : \/ Step(p) \/ Killed(p) \/ Late(p)
                               \/ Declaration(p) \/ Read(p) \/ Quit(p)
    <2>1. PICK p \in Procs : \/ Step(p) \/ Killed(p) \/ Late(p)
                             \/ Declaration(p) \/ Read(p) \/ Quit(p)
      BY <1>1
    <2>2. StepOK(p)
      BY <2>1, ConfigureOK, UnlinkOK, StatOK, VerifyOK, RenameOK, CleanPartialsOK, LookOK,
         CompleteOK, NotFoundOK, KilledOK, ReportOK, ProbeOK, ProbePrefixOK, LateOK,
         DeclarationOK, ReadOK
      DEF Step
    <2> QED
      BY <2>2, StepKeeps
  <1>2. CASE \E p \in Procs : \E mode \in Modes : Start(p, mode)
    BY <1>2, StartKeeps
  <1>3. CASE \E x \in DOMAIN partial : Age(x)
    BY <1>3, AgeKeeps
  <1>4. CASE UNCHANGED vars
    BY <1>4
    DEF vars, Inv, TypeOK, EntryInv, Alone, FileAsSeen, TransferInv, SourceInv, SourceOf, At
  <1> QED
    BY <1>1, <1>2, <1>3, <1>4 DEF Next

LEMMA InvAlways == Spec => []Inv
  BY InvInit, InvNext, PTL DEF Spec

---------------------------------------------------------------------------
(* The theorems *)

\* What a prefetch has reported complete is in the cache while one run at a
\* time uses it, through checks that time out and runs that are killed.
THEOREM PromiseIsKept == Spec => []ServedLater
  <1>1. Inv => ServedLater
    BY DEF Inv, EntryInv, ServedLater
  <1> QED
    BY <1>1, InvAlways, PTL

\* A run that is alone has cleared an empty entry before it asks for the file,
\* and none comes back on the way to its fetch or its attach
\* (clear_empty_entries before is_cached, prefetch and program_from_kernel).
THEOREM EmptyIsCleared == Spec => []FetchNotRefused
  <1>1. Inv => FetchNotRefused
    <2> SUFFICES ASSUME Inv, NEW p \in Procs, At(p, "fetch") \/ At(p, "attach"),
                        file = "empty", ~ overlapped
                 PROVE FALSE
      BY DEF FetchNotRefused, Inv, TypeOK
    <2> QED
      BY DEF Inv, EntryInv, FileAsSeen
  <1> QED
    BY <1>1, InvAlways, PTL

\* An accepted source has lost the deadline of its probe, for as long as the
\* run explores (_probe_source and _find).
THEOREM SourceStaysOpen == Spec => []NothingRefused
  <1>1. Inv => NothingRefused
    BY DEF Inv, SourceInv, SourceOf, NothingRefused
  <1> QED
    BY <1>1, InvAlways, PTL

\* No step of a run that is alone takes a complete file away: each check and
\* each deletion acts on what it has just seen.
THEOREM OnlyTwoLoseIt == Spec => GoodIsKept
  <1>1. Inv /\ [Next]_vars => [file = "good" /\ file' # "good" => overlapped]_vars
    <2> SUFFICES ASSUME Inv, Next, ~ overlapped, file = "good", file' # "good" PROVE FALSE
      BY DEF Inv, TypeOK
    <2>1. PICK p \in Procs : Unlink(p) \/ Rename(p) \/ Complete(p) \/ NotFound(p)
      BY DEF Next, Step, Start, Configure, Stat, Verify, CleanPartials, Look, TransferFails,
             Report, Probe, ProbePrefix, Killed, Late, Declaration, Read, Quit, Age, cache, ghosts
    <2>2. FileAsSeen(p)
      BY DEF Inv, EntryInv
    <2> QED
      BY <2>1, <2>2 DEF FileAsSeen, Unlink, Rename, Complete, NotFound
  <1> QED
    BY <1>1, InvAlways, PTL DEF Spec, GoodIsKept

===============================================================================
