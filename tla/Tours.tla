--------------------------------- MODULE Tours ---------------------------------
(***************************************************************************)
(* The guided tutorials (kexplore/operations/tour.py): what each step      *)
(* shows, of which process, and the row it marks for enter, while          *)
(* processes start and exit.  The objects of a step are resolved when the  *)
(* step is first shown (tutorial_step_frame in kexplore/view/frames.py).   *)
(* Going back shows the frames there were, so only steps forward are here. *)
(***************************************************************************)
EXTENDS LinkTables, FiniteSetsExt

CONSTANT Order      \* the processes other than pid 1, by pid

Procs == {"init"} \cup {Order[i] : i \in DOMAIN Order}

ASSUME ToursAssumption ==
    /\ Order \in Seq(STRING)
    /\ {"init", "swapper", "kernel"} \cap {Order[i] : i \in DOMAIN Order} = {}

VARIABLES
    threads,    \* nr_threads of each process, 0 if there is none
    mm,         \* its leader has an address space: not once it has exited
    tour, step, \* the tour and its step, 0 on the landing page
    named,      \* the process the titles and labels of the steps name
    moved,      \* history: it lost a thread, or one before it got a second
    chosen,     \* the process a resolver chose, before its objects were read
    lost,       \* it lost its address space since
    frame, from \* what the step shows, and what the one before showed

world == <<threads, mm>>
toursVars == <<world, tour, step, named, moved, chosen, lost, frame, from>>

---------------------------------------------------------------------------
(* Steps *)

\* Whose it is: "selected" and "waited" are searched for at every step, "any"
\* is the process of the tour or one that has what is looked for.  How it is
\* read: the task or what a task always has; its threads; the mm or init_mm; the
\* list of its areas; one of them; a search that may end without a result; what
\* file descriptor 0 leads to, or the files_struct.
Shown(whose, read, type) == [whose |-> whose, read |-> read, type |-> type]
Step(shown, mark) == [shown |-> shown, mark |-> mark]
Kernel(type) == Shown("kernel", "task", type)

\* _resolve_home and the catalogs: entries, and not objects of a process.
Home(entry) == Step(Kernel("home"), entry)
Catalog(entry) == Step(Kernel("catalog"), entry)

ArchitectureShows == [
    leader  |-> Shown("selected", "task", "task_struct"),
    threads |-> Shown("selected", "threads", "threads"),
    mm      |-> Shown("selected", "mm", "mm_struct"),
    vmas    |-> Shown("selected", "areas", "VMAs"),
    text    |-> Shown("selected", "area", "vm_area_struct"),
    file    |-> Shown("selected", "area", "file"),
    sighand |-> Shown("selected", "task", "sighand_struct")]

Architecture == LET s == ArchitectureShows IN
    << Home("task relationships"), Catalog("processes"), Step(s.leader, "threads"),
       Step(s.threads, "mm"), Step(s.mm, "VMAs"), Step(s.vmas, "comm"),
       Step(s.text, "vm_file"), Step(s.file, "f_inode"), Step(s.sighand, "action") >>

LifecycleShows == [
    init_task |-> Shown("swapper", "task", "task_struct"),
    cred      |-> Shown("init", "task", "cred"),
    nsproxy   |-> Shown("init", "task", "nsproxy"),
    net       |-> Shown("init", "task", "net"),
    files     |-> Shown("init", "task", "files_struct"),
    fd0       |-> Shown("init", "fd 0", "file"),
    inode0    |-> Shown("init", "fd 0", "inode")]

Lifecycle == LET s == LifecycleShows IN
    << Home("task relationships"), Catalog("init"), Step(s.init_task, "cred"),
       Step(s.cred, "nsproxy"), Step(s.nsproxy, "net_ns"), Step(s.net, "dev_base_head"),
       Step(s.files, "fdt"), Step(s.fd0, "f_inode"), Step(s.inode0, "i_ino") >>

\* find_task of the pid of pid 1.
MemoryShows == [
    task  |-> Shown("init", "task", "task_struct"),
    mm    |-> Shown("init", "mm", "mm_struct"),
    vmas  |-> Shown("init", "areas", "VMAs"),
    text  |-> Shown("init", "area", "vm_area_struct"),
    other |-> Shown("any", "area", "vm_area_struct"),
    stack |-> Shown("init", "area", "vm_area_struct")]

\* The library, the heap and a huge page are looked for in other processes too.
UserMemory == LET s == MemoryShows IN
    << Home("a process and its address space"), Step(s.task, "mm"), Step(s.mm, "VMAs"),
       Step(s.vmas, "text row"), Step(s.text, "vm_file"), Step(s.other, "vm_file"),
       Step(s.other, "anon_vma"), Step(s.stack, "vm_flags"), Step(s.other, "vm_flags"),
       Step(s.mm, "rss_stat") >>

\* _task_of and _mm_of: the process of the tour.
PageShows == [
    task  |-> Shown("init", "task", "task_struct"),
    mm    |-> Shown("init", "mm", "mm_struct"),
    vmas  |-> Shown("init", "areas", "VMAs"),
    text  |-> Shown("init", "area", "vm_area_struct"),
    pages |-> Shown("init", "pages", "resident pages"),
    page  |-> Shown("init", "search", "page"),
    zone  |-> Shown("init", "search", "zone")]

PageTable == LET s == PageShows IN
    << Home("a process and its address space"), Step(s.task, "mm"), Step(s.mm, "pgd"),
       Step(s.mm, "VMAs"), Step(s.vmas, "text row"), Step(s.text, "resident pages"),
       Step(s.pages, "text row"), Step(s.page, "zone"), Step(s.zone, "managed_pages") >>

\* The queue of CPU 0, and the process running there or pid 1.
SchedulerShows == [
    rq     |-> Kernel("rq"),
    cfs_rq |-> Kernel("cfs_rq"),
    se     |-> Shown("running", "task", "sched_entity"),
    task   |-> Shown("running", "task", "task_struct"),
    init   |-> Shown("init", "task", "task_struct")]

Scheduler == LET s == SchedulerShows IN
    << Home("what is running right now"), Catalog("runqueues"), Step(s.rq, "cfs"),
       Step(s.cfs_rq, "curr"), Step(s.se, "deadline"), Step(s.se, "vruntime"),
       Step(s.task, "policy"), Step(s.init, "__state"), Step(s.rq, "curr") >>

AccountingShows == [
    task       |-> Shown("waited", "task", "task_struct"),
    sched_info |-> Shown("waited", "task", "sched_info"),
    se         |-> Shown("waited", "task", "sched_entity"),
    stats      |-> Shown("waited", "task", "sched_statistics"),
    cgroup     |-> Shown("waited", "search", "cgroup"),
    psi        |-> Shown("waited", "task", "psi_group"),
    rq         |-> Shown("waited", "search", "rq")]

Accounting == LET s == AccountingShows IN
    << Home("what is running right now"), Step(s.task, "__state"), Step(s.task, "se"),
       Step(s.se, "sum_exec_runtime"), Step(s.task, "sched_info"),
       Step(s.sched_info, "runqueue"), Step(s.rq, "nr_running"), Step(s.stats, "wait_sum"),
       Step(s.cgroup, "pressure"), Step(s.psi, "total"), Step(s.task, "delays") >>

Tours == [ process_architecture |-> Architecture, process_lifecycle |-> Lifecycle,
           user_memory_types |-> UserMemory, page_table_translation |-> PageTable,
           eevdf_scheduler |-> Scheduler, time_accounting |-> Accounting ]

---------------------------------------------------------------------------
(* Whose objects a step shows *)

Alive == {p \in Procs : threads[p] > 0}

\* Mistake: the last leader with several threads, and not the first.
LastMultithreaded ==
    LET several == {i \in DOMAIN Order : threads[Order[i]] > 1}
    IN IF several = {} THEN "init" ELSE Order[Max(several)]

\* The first leader with several threads, else pid 1, which is before all.
Multithreaded ==
    LET several == {i \in DOMAIN Order : threads[Order[i]] > 1}
    IN IF threads["init"] > 1 \/ several = {} THEN "init" ELSE Order[Min(several)]

Before(p, q) ==
    \/ p = "init" /\ q # "init"
    \/ \E i, j \in DOMAIN Order : i < j /\ Order[i] = p /\ Order[j] = q

\* The one with the largest run_delay is any that has an address space.
Accounted ==
    LET users == {p \in Alive : mm[p]} IN IF users = {} THEN {"init"} ELSE users

Owners(whose) ==
    CASE whose = "selected"          -> {Multithreaded}
      [] whose = "waited"            -> Accounted
      [] whose = "any"               -> {"init"} \cup {p \in Alive : mm[p]}
      [] whose = "running"           -> Alive \cup {"swapper"}
      [] whose \in {"init", "swapper", "kernel"} -> {whose}

Blank == [type |-> "none", of |-> "kernel", mark |-> "none"]
Nobody == [who |-> "kernel", mm |-> FALSE, set |-> FALSE]
Now == Tours[tour][step]

\* GuidedTour.steps: the steps are built once, for the process found then.
NamedIn(t) ==
    CASE t = "process_architecture" -> {Multithreaded}
      [] t = "time_accounting"      -> Accounted
      [] OTHER                      -> {"init"}

Start(t) ==
    /\ step = 0
    /\ tour' = t /\ step' = 1 /\ lost' = FALSE /\ chosen' = Nobody
    /\ named' \in NamedIn(t) /\ moved' = FALSE
    /\ from' = Blank /\ frame' = [Blank EXCEPT !.type = "home", !.mark = Tours[t][1].mark]
    /\ UNCHANGED world

Leave ==
    /\ step > 0 /\ ~ chosen.set
    /\ step' = 0 /\ frame' = Blank /\ from' = Blank /\ lost' = FALSE
    /\ named' = "init" /\ moved' = FALSE
    /\ UNCHANGED <<world, tour, chosen>>

\* The resolver of the next step finds its process and looks at its mm ...
Choose ==
    /\ step \in 1..(Len(Tours[tour]) - 1) /\ ~ chosen.set
    /\ step' = step + 1 /\ lost' = FALSE /\ from' = frame
    /\ \E p \in Owners(Tours[tour][step + 1].shown.whose) :
          chosen' = [who |-> p, mm |-> p \in Procs /\ mm[p], set |-> TRUE]
    /\ UNCHANGED <<world, tour, named, moved, frame>>

\* Mistake: the mm is taken without a look at it first.
ReadMmUnchecked(shown) ==
    IF mm[chosen.who] THEN {shown.type}
    ELSE IF shown.read = "mm" THEN {"null"} ELSE {"error"}

\* ... and the frame reads the member again.  Without one, init_mm is shown,
\* which is the kernel's and has no areas.
ReadMm(shown) ==
    IF ~ chosen.mm
    THEN {IF shown.read = "mm" THEN shown.type ELSE "empty"}
    ELSE IF mm[chosen.who] THEN {shown.type}
    ELSE IF shown.read = "mm" THEN {"null"} ELSE {"error"}

\* What comes of a step: a search may find nothing, and a list of one is shown
\* as that one.
Comes(shown) ==
    CASE shown.read = "task"            -> {shown.type}
      [] shown.read = "threads"         ->
            {IF threads[chosen.who] > 1 THEN shown.type ELSE "task_struct"}
      [] shown.read = "search"          -> {shown.type, "empty"}
      [] shown.read = "pages"           -> {shown.type, "page", "empty"}
      [] shown.read = "fd 0"            -> {shown.type, "files_struct"}
      [] shown.read \in {"mm", "areas"} -> ReadMm(shown)
      [] shown.read = "area"            -> ReadMm(shown) \cup {"empty"}

\* The rows of a list are made by a second run of the resolver, which looks for
\* its process again.
Again(t) ==
    IF t = Now.shown.type /\ Now.shown.read \in {"threads", "areas", "pages"}
    THEN { [type |-> IF Now.shown.read = "areas" /\ ~ mm[p] THEN "empty" ELSE t,
            of |-> p, mark |-> Now.mark] : p \in Owners(Now.shown.whose) }
    ELSE { [type |-> t, of |-> IF Now.shown.read = "mm" /\ ~ chosen.mm THEN "kernel"
                               ELSE chosen.who,
            mark |-> Now.mark] }

Read ==
    /\ chosen.set
    /\ \E t \in Comes(Now.shown) : frame' \in Again(t)
    /\ chosen' = Nobody
    /\ UNCHANGED <<world, tour, step, named, moved, lost, from>>

---------------------------------------------------------------------------
(* Processes *)

Lose(p) == lost' = (lost \/ (chosen.set /\ chosen.who = p /\ mm[p]))
Elsewhere == UNCHANGED <<tour, step, named, chosen, frame, from>>
Settled == UNCHANGED moved

Fork(p) ==
    /\ threads[p] = 0
    /\ threads' = [threads EXCEPT ![p] = 1] /\ mm' = [mm EXCEPT ![p] = TRUE]
    /\ Elsewhere /\ Settled /\ UNCHANGED lost

Clone(p) ==
    /\ threads[p] = 1 /\ mm[p]
    /\ threads' = [threads EXCEPT ![p] = 2]
    /\ moved' = (moved \/ threads[named] # 2 \/ Before(p, named))
    /\ Elsewhere /\ UNCHANGED <<mm, lost>>

ThreadEnds(p) ==
    /\ threads[p] = 2
    /\ threads' = [threads EXCEPT ![p] = 1] /\ moved' = (moved \/ p = named)
    /\ Elsewhere /\ UNCHANGED <<mm, lost>>

\* The leader exits: it keeps its task_struct while other threads run, or until
\* it has been waited for.
LeaderExits(p) ==
    /\ p # "init" /\ threads[p] > 0 /\ mm[p]
    /\ mm' = [mm EXCEPT ![p] = FALSE] /\ Lose(p)
    /\ Elsewhere /\ Settled /\ UNCHANGED threads

Reaped(p) ==
    /\ threads[p] = 1 /\ ~ mm[p]
    /\ threads' = [threads EXCEPT ![p] = 0]
    /\ Elsewhere /\ Settled /\ UNCHANGED <<mm, lost>>

---------------------------------------------------------------------------
ToursInit ==
    /\ threads \in [Procs -> 0..2] /\ threads["init"] > 0
    /\ mm = [p \in Procs |-> threads[p] > 0]
    /\ tour \in DOMAIN Tours /\ step = 0
    /\ named = "init" /\ moved = FALSE
    /\ chosen = Nobody /\ lost = FALSE /\ frame = Blank /\ from = Blank

ToursNext ==
    \/ \E t \in DOMAIN Tours : Start(t)
    \/ Choose \/ Read \/ Leave
    \/ \E p \in Procs : Fork(p) \/ Clone(p) \/ ThreadEnds(p) \/ LeaderExits(p) \/ Reaped(p)

ToursSpec == ToursInit /\ [][ToursNext]_toursVars

---------------------------------------------------------------------------
\* No process that starts, exits or gains and loses threads makes a step fail
\* or show a null pointer: each resolver has something else to show.  Only the
\* exit between its look and the reading does.
FailsOnlyByRace == frame.type \in {"null", "error"} /\ ~ chosen.set => lost

\* The tour of a process is of one process: each step searches for it again,
\* and a list does so once more for its rows, and still what they show is of the
\* process their titles and labels name, or init_mm once its leader has exited.
\* Only a thread that ends in it, or a second one in a process before it (in any,
\* if it has one itself), takes the tour elsewhere (_find_live_multithreaded_task).
ShowsWhoItNames ==
    tour = "process_architecture" /\ ~ moved => frame.of \in {named, "kernel"}

\* The same whatever other processes do, as the titles and labels have it: "the
\* leader COMM (PID N)", "COMM exe file", "COMM sighand_struct".
ShowsWhoItNamesAlways ==
    tour = "process_architecture" => frame.of \in {named, "kernel"}

\* The rows that lead somewhere, by the name of what the step shows: the links,
\* the row of a list, which opens what the list is of, and the pointer pgd.
LinkOf(type, mark) ==
    {l.to : l \in {k \in Links(type) : k.name = mark}} \cup
    (IF type = "VMAs" /\ mark = "text row" THEN {"vm_area_struct"} ELSE {}) \cup
    (IF type = "resident pages" /\ mark = "text row" THEN {"page"} ELSE {}) \cup
    (IF type = "mm_struct" /\ mark = "pgd" THEN {"pgd_t"} ELSE {})

\* The same object, as one or as a list.
ShownAs == [VMAs |-> "vm_area_struct", threads |-> "task_struct"]
Element(f) ==
    CASE f.type = "resident pages"  -> "page"
      [] f.type \in DOMAIN ShownAs  -> ShownAs[f.type]
      [] OTHER                      -> f.type

\* Enter on a marked row that leads somewhere shows what it leads to, or that
\* there is none ("Follow the action highlight into the next structure",
\* docs/kernel-concepts.md:208).
EnterFollows ==
    chosen.set \/ frame.type \in {"empty", "null", "error"} \/
    \A to \in LinkOf(from.type, from.mark) :
        Element(frame) = to /\ (frame.of = from.of \/ frame.type = "rq")

===============================================================================
