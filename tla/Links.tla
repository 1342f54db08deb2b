--------------------------------- MODULE Links ---------------------------------
(***************************************************************************)
(* Following the curated links of a structure of a kernel that goes on     *)
(* changing: the links a frame offers were chosen when its rows were read, *)
(* and a link is resolved when it is followed (object_frame and _link_row  *)
(* in kexplore/view/frames.py, collect and collection_rows in              *)
(* kexplore/core/nav.py).  A link may walk a list whose entries leave it   *)
(* during the walk; what drgn's list helper reads is modelled.             *)
(***************************************************************************)
EXTENDS LinkTables

CONSTANTS
    Nodes,      \* the entries of the list a link walks
    MaxRows     \* MAX_ROWS: rows kept of one walk (512)

ASSUME LinksAssumption ==
    MaxRows \in Nat \ {0} /\ IsFiniteSet(Nodes) /\ {"head", "other", "poison"} \cap Nodes = {}

VARIABLES
    type,       \* the structure the frame on screen shows
    facts,      \* what is so of it now
    offered,    \* the links among its rows
    fresh,      \* nothing of it has changed since the rows were read
    phase,      \* "object", or what following a link of it has led to
    followed,   \* the link that was followed
    next,       \* the list: the next pointer of each entry, and of its head
    content,    \* the entries that are in it
    pos,        \* the pointer the walk has read last
    rows, more, \* Collection: the items, and whether there were more
    start, was  \* the list when the walk began, and all that were ever in it

frame == <<type, facts, offered, fresh>>
list == <<next, content, pos, rows, more, start, was>>
linksVars == <<frame, phase, followed, list>>

Phases == {"object", "null", "empty", "error", "walking", "listed"}
Places == Nodes \cup {"head", "other", "poison"}
NoLink == Own("none", "void")
NoList == [p \in Places \ {"poison"} |-> IF p \in Nodes THEN "poison" ELSE p]

\* What may be so of an object of a type.  A task is of one of some kinds: of a
\* process, blocked, with segments and other credentials; a kernel thread, one
\* with a borrowed mm, a worker; an idle task; a zombie.
TaskKinds ==
    LET alive == {"nsproxy", "files", "fs", "dfl_cgrp", "shm_clist"} IN
    { alive \cup {"mm"}, alive \cup {"mm", "blocked_on", "shm", "acts"}, alive,
      alive \cup {"borrows"}, alive \cup {"kworker"},
      (alive \cup {"borrows"}) \ {"shm_clist"}, {"dfl_cgrp", "shm_clist"} }

\* A type's own facts; a real tcp_sock has the number of TCP, a queue's next
\* sk_buff is one, a device is not scratch data.
Consistent(f) ==
    /\ \A pair \in { <<"tcp_sock", "IPPROTO_TCP">>, <<"udp_sock", "IPPROTO_UDP">>,
                     <<"dev", "dev or scratch">>, <<"next is an skb", "next">> } :
          pair[1] \in f => pair[2] \in f
    /\ Cardinality(f \cap {"IPPROTO_TCP", "IPPROTO_UDP", "AF_UNIX"}) < 2

\* AF_UNIX is the family, and all there is to be a unix_sock.
Legal(t) ==
    CASE t = "task_struct" -> TaskKinds
      [] t = "sock" -> {f \in SUBSET (Facts(t) \cup {"unix_sock"}) :
                           Consistent(f) /\ ("AF_UNIX" \in f <=> "unix_sock" \in f)}
      [] OTHER -> {f \in SUBSET Facts(t) : Consistent(f)}

---------------------------------------------------------------------------
(* A frame *)

\* object_frame: the links whose predicate holds; a predicate that raises
\* hides its link.
Offered(t, f) == {l \in Links(t) : l.shown \subseteq f}

Show(t, f) ==
    /\ type' = t /\ facts' = f /\ offered' = Offered(t, f) /\ fresh' = TRUE
    /\ phase' = "object" /\ followed' = NoLink
    /\ next' = NoList /\ pos' = "head" /\ rows' = <<>> /\ more' = FALSE
    /\ content' = <<>> /\ start' = <<>> /\ was' = {}

\* An entry of the sidebar, or any pointer member of a structure.
Open == phase = "object" /\ \E t \in Linked : \E f \in Legal(t) : Show(t, f)

\* The kernel goes on.
Change ==
    /\ phase = "object"
    /\ \E f \in Legal(type) \ {facts} : facts' = f
    /\ fresh' = FALSE
    /\ UNCHANGED <<type, offered, phase, followed, list>>

Reload == phase = "object" /\ ~ fresh /\ Show(type, facts)

---------------------------------------------------------------------------
(* Following a link *)

\* The list as its helper sees it at first, and a list next to it.
Chain(s) ==
    [p \in DOMAIN NoList |->
        IF p = "head" THEN IF s = <<>> THEN "head" ELSE s[1]
        ELSE IF \E i \in DOMAIN s : s[i] = p
             THEN LET i == CHOOSE j \in DOMAIN s : s[j] = p
                  IN IF i = Len(s) THEN "head" ELSE s[i + 1]
             ELSE NoList[p]]

Lists == { s \in UNION {[1..n -> Nodes] : n \in 0..Cardinality(Nodes)} :
              \A i, j \in DOMAIN s : s[i] = s[j] => i = j }

StartWalk(l) ==
    /\ phase' = "walking" /\ followed' = l
    /\ \E s \in Lists :
        /\ next' = Chain(s) /\ pos' = next'["head"] /\ content' = s /\ start' = s
        /\ was' = {s[i] : i \in DOMAIN s}
    /\ rows' = <<>> /\ more' = FALSE
    /\ UNCHANGED frame

\* A bounded number of slots, or a tree: what is listed does not matter here.
ListSlots(l) == phase' = "listed" /\ followed' = l /\ UNCHANGED <<frame, list>>

\* The resolver runs on the object as it is now; collect turns what it raises
\* into an error row.
Follow(l) ==
    /\ phase = "object" /\ l \in offered
    /\ IF ~ l.rests \subseteq facts
       THEN phase' = l.without /\ followed' = l /\ UNCHANGED <<frame, list>>
       ELSE CASE l.walk = "none" ->
                   IF l.to \in Linked THEN \E f \in Legal(l.to) : Show(l.to, f)
                   ELSE ListSlots(l)
              [] l.walk = "array" -> ListSlots(l)
              [] OTHER -> StartWalk(l)

\* Mistake: the limit is for the rows that are shown, not for the walk.
CollectAll ==
    /\ phase = "walking"
    /\ CASE pos = "head"   -> phase' = "listed" /\ UNCHANGED <<pos, rows, more>>
         [] pos = "poison" -> phase' = "error" /\ UNCHANGED <<pos, rows, more>>
         [] pos \notin {"head", "poison"} ->
              /\ pos' = next[pos] /\ UNCHANGED phase
              /\ IF Len(rows) >= MaxRows THEN more' = TRUE /\ UNCHANGED rows
                 ELSE rows' = Append(rows, pos) /\ UNCHANGED more
    /\ UNCHANGED <<frame, followed, next, content, start, was>>

\* collect: one item more, until the helper is back at the head.  A poisoned
\* pointer faults, and the items read so far are not shown.
CollectUpTo(limit) ==
    /\ phase = "walking"
    /\ CASE pos = "head"   -> phase' = "listed" /\ UNCHANGED <<pos, rows, more>>
         [] pos = "poison" -> phase' = "error" /\ UNCHANGED <<pos, rows, more>>
         [] pos \notin {"head", "poison"} ->
              IF Len(rows) >= limit
              THEN phase' = "listed" /\ more' = TRUE /\ UNCHANGED <<pos, rows>>
              ELSE rows' = Append(rows, pos) /\ pos' = next[pos] /\ UNCHANGED <<phase, more>>
    /\ UNCHANGED <<frame, followed, next, content, start, was>>

\* Mistake: one row too few.
CollectOneFewer == CollectUpTo(MaxRows - 1)

Collect == CollectUpTo(MaxRows)

\* Where the pointer of an entry leads that was taken out: it is kept for
\* readers, is poisoned, leads to the entry itself, or into another list.
Leads(n) ==
    CASE followed.walk = "kept"   -> next[n]
      [] followed.walk = "poison" -> "poison"
      [] followed.walk = "self"   -> n
      [] followed.walk = "move"   -> next["other"]

\* The kernel takes an entry out ...
Remove(i) ==
    /\ phase = "walking"
    /\ LET n == content[i]
           before == IF i = 1 THEN "head" ELSE content[i - 1]
       IN next' = [p \in DOMAIN next |->
                      CASE p = before  -> next[n]
                        [] p = n       -> Leads(n)
                        [] p = "other" -> IF followed.walk = "move" THEN n ELSE next[p]
                        [] OTHER       -> next[p]]
    /\ content' = [j \in 1..(Len(content) - 1) |-> content[IF j < i THEN j ELSE j + 1]]
    /\ UNCHANGED <<frame, phase, followed, pos, rows, more, start, was>>

\* ... and puts one in that was in no list yet, in front.
Insert(n) ==
    /\ phase = "walking" /\ n \notin was
    /\ next' = [next EXCEPT !["head"] = n, ![n] = next["head"]]
    /\ content' = <<n>> \o content /\ was' = was \cup {n}
    /\ UNCHANGED <<frame, phase, followed, pos, rows, more, start>>

\* Back to the frame, whose rows are still the ones it has.
Back ==
    /\ phase \in {"null", "empty", "error", "listed"}
    /\ phase' = "object" /\ followed' = NoLink
    /\ next' = NoList /\ pos' = "head" /\ rows' = <<>> /\ more' = FALSE
    /\ content' = <<>> /\ start' = <<>> /\ was' = {}
    /\ UNCHANGED frame

---------------------------------------------------------------------------
LinksInit ==
    /\ type \in Linked /\ facts \in Legal(type) /\ offered = Offered(type, facts)
    /\ fresh = TRUE /\ phase = "object" /\ followed = NoLink
    /\ next = NoList /\ pos = "head" /\ rows = <<>> /\ more = FALSE
    /\ content = <<>> /\ start = <<>> /\ was = {}

LinksNext ==
    \/ Open \/ Change \/ Reload \/ Back \/ Collect
    \/ \E l \in offered : Follow(l)
    \/ \E i \in DOMAIN content : Remove(i)
    \/ \E n \in Nodes : Insert(n)

\* The walk runs in a worker thread, which is scheduled.
LinksSpec == LinksInit /\ [][LinksNext]_linksVars /\ WF_linksVars(Collect)

---------------------------------------------------------------------------
\* A link is offered only if its resolver has what it dereferences: it fails
\* only if the object changed after its row was read.  The six that fail all
\* the same are named ("reports any exception", tests/test_crawl.py:10).
Gaps == {CgroupWalks.tasks, SkbDevice, SkbFragPage, SkbNext} \cup
        {l \in Links("sock") : l.to \in {"tcp_sock", "udp_sock"}}

OfferedOpens ==
    phase = "error" /\ fresh /\ pos # "poison" => followed \in Gaps

\* A list that loses or gains entries during the walk, each leaving its pointer
\* behind or poisoned, is listed without repetition and without an entry that
\* was never in it; one that stays as it is is listed from its start.
WalkIsHonest ==
    phase = "listed" /\ followed.walk \in {"kept", "poison"} =>
        /\ \A i, j \in DOMAIN rows : rows[i] = rows[j] => i = j
        /\ \A i \in DOMAIN rows : rows[i] \in was
        /\ next = Chain(start) =>
              rows = SubSeq(start, 1, IF Len(start) < MaxRows THEN Len(start) ELSE MaxRows)

\* Whatever becomes of the list, following a link ends: an entry that points to
\* itself, or into another list, does not keep the walk going for ever.
WalkEnds == phase = "walking" ~> phase # "walking"

===============================================================================
