------------------------------ MODULE LinkTables ------------------------------
(***************************************************************************)
(* The curated links out of each structure (LINKS in                       *)
(* kexplore/catalog/links.py): what a link needs of an object to be        *)
(* offered, what its resolver needs to work, and where it leads.  What may *)
(* be so or not of an object is a fact: a pointer that is not NULL, a list *)
(* that is not empty, a callback that is a certain function.               *)
(***************************************************************************)
EXTENDS Integers, Sequences, FiniteSets

\* name; the facts its predicate asks for; the facts its resolver rests on;
\* what is shown without them; the type it leads to; how the entries of the
\* list it walks leave that list, "none" when it leads to one object and
\* "array" when it reads a bounded number of slots or a tree.
\* An object's own member, or a pointer that is always set.
Own(name, to) ==
    [name |-> name, shown |-> {}, rests |-> {}, without |-> "null", to |-> to, walk |-> "none"]
\* A pointer that may be NULL, and is offered all the same.
Ptr(name, fact, to) == [Own(name, to) EXCEPT !.rests = {fact}]
\* A pointer that is offered when it is not NULL.
PtrIf(name, fact, to) == [Ptr(name, fact, to) EXCEPT !.shown = {fact}]
\* A pointer that is set, and offered when it is of use.
Asked(name, fact, to) == [PtrIf(name, fact, to) EXCEPT !.rests = {}]
\* A cast, a search or a chain of pointers that fails without the fact.
OnlyIf(name, fact, to) == [PtrIf(name, fact, to) EXCEPT !.without = "error"]
Walk(name, leave, to) == [Own(name, to) EXCEPT !.walk = leave]
WalkIf(name, fact, leave, to) ==
    [Walk(name, leave, to) EXCEPT !.shown = {fact}, !.rests = {fact}, !.without = "empty"]

---------------------------------------------------------------------------
(* What the resolvers rest on, and how they walk *)

\* The handlers of an irq chain without a head.  The lists of the workqueues
\* lose entries while they are walked: a worker is freed, work is moved.  The
\* worker of a task is searched for in the pools, and may not be found.
WorkWalks == [
    actions |-> WalkIf("actions", "action", "array", "irqaction"),
    workers |-> Walk("workers", "poison", "worker"),
    worklist |-> Walk("queued work", "move", "work_struct"),
    pwqs |-> Walk("pool_workqueues", "kept", "pool_workqueue"),
    inactive |-> Walk("inactive work", "move", "work_struct"),
    worker |-> [PtrIf("worker", "kworker", "worker") EXCEPT !.without = "empty"]]

\* A sleeper and a delayed work are found by casting, when the callback says
\* that the timer is in one; the clock bases are an array, a timer queue a tree.
TimerWalks == [
    sleeper |-> OnlyIf("sleeping task", "hrtimer_wakeup", "task_struct"),
    queued |-> Walk("queued timers", "array", "hrtimer"),
    bases |-> Walk("clock bases", "array", "hrtimer_clock_base"),
    wheel |-> Walk("pending timers", "poison", "timer_list")]
DelayedWork(name, to) == OnlyIf(name, "delayed_work_timer_fn", to)

\* The owner of an rwsem is offered while it is locked.
RwsemOwner == [PtrIf("owner", "owner", "task_struct") EXCEPT !.shown = {"locked", "owner"}]

\* From the first waiter round to it again.
MutexWaiters == WalkIf("waiters", "first_waiter", "poison", "mutex_waiter")

\* A thread that exits keeps its pointers; a child moves to another parent.
TaskWalks == [
    threads |-> Walk("threads", "kept", "task_struct"),
    signal |-> Walk("thread_head", "kept", "task_struct"),
    children |-> Walk("children", "move", "task_struct")]

\* Without files or a nsproxy, as in a zombie, there is nothing to list.
TaskFiles(name, to) ==
    [Walk(name, "array", to) EXCEPT !.rests = {"files"}, !.without = "empty"]
Namespaces == [TaskFiles("namespaces", "namespace") EXCEPT !.rests = {"nsproxy"}]

\* The VMA walk dereferences task->mm.
VmasIfUser == [WalkIf("VMAs", "mm", "array", "vm_area_struct") EXCEPT !.without = "error"]

\* Mistake: the VMAs of a kernel thread are offered too.
VmasAlways == [VmasIfUser EXCEPT !.shown = {}]

TaskVmas == VmasIfUser

\* A page without a zone, and the last cache, lead nowhere.  Who maps a page is
\* asked while it is in use and has a mapping; only a free one's is not to be
\* followed, and without any the walk is of no area.
PageWalks == [
    zone |-> OnlyIf("zone", "in a zone", "zone"),
    nextCache |-> OnlyIf("next cache", "next is a cache", "kmem_cache"),
    mappers |-> [Walk("mapped by", "array", "vm_area_struct") EXCEPT
                    !.shown = {"in use", "mapping"}, !.rests = {"in use"}, !.without = "error"]]
ResidentPages == Walk("resident pages", "array", "page")

FdWalks == [
    entries |-> Walk("fd[] entries", "array", "file"),
    open |-> Walk("open files", "array", "file"),
    leaves |-> Walk("all cfs_rqs", "kept", "cfs_rq")]

\* Neither list takes a reference: a mount leaves it poisoned, a superblock
\* pointing to itself.
MountWalks == [
    mounts |-> Walk("mounts", "poison", "mount"),
    sockfs |-> Own("sockfs superblock", "super_block"),
    supers |-> Walk("superblocks", "self", "super_block")]

\* The tables of queues are read slot by slot; request->bio and bio->bi_next
\* chain without a head, so such a chain ends in NULL.
BlockWalks == [
    partitions |-> Walk("partitions", "array", "block_device"),
    hardware |-> WalkIf("hardware queues", "nr_hw_queues", "array", "blk_mq_hw_ctx"),
    software |-> WalkIf("software queues", "nr_ctx", "array", "blk_mq_ctx"),
    inFlight |-> [WalkIf("in flight", "mq_ops", "array", "request") EXCEPT !.without = "error"],
    bios |-> WalkIf("bios", "bio", "array", "bio"),
    pages |-> WalkIf("pages", "bi_vcnt", "array", "page")]

\* Zero or one task: none once the process has exited.
Process(name, fact) == [PtrIf(name, fact, "task_struct") EXCEPT !.without = "empty"]

\* sysvshm.shm_clist is offered when it is set up and holds a segment; walking
\* one that was never set up faults.
TaskShm == [Walk("shared memory created", "self", "shmid_kernel")
               EXCEPT !.shown = {"shm_clist", "shm"}, !.rests = {"shm_clist"},
                      !.without = "error"]

\* The objects of a namespace are in an IDR; messages and sleepers are on lists
\* they leave when they are served.
IpcWalks == [
    queues |-> WalkIf("message queues", "in_use[1]", "array", "msg_queue"),
    arrays |-> WalkIf("semaphore arrays", "in_use[0]", "array", "sem_array"),
    segments |-> WalkIf("shared memory", "in_use[2]", "array", "shmid_kernel"),
    messages |-> WalkIf("messages", "q_qnum", "poison", "msg_msg"),
    receivers |-> WalkIf("receivers", "q_receivers", "poison", "msg_receiver"),
    members |-> Walk("semaphores", "array", "sem")]
SemPending(name, fact) == WalkIf(name, fact, "poison", "sem_queue")

\* What _cgroup_tasks yields is a task and not a label with a task.
CgroupWalks == [
    cgroup |-> PtrIf("cgroup", "dfl_cgrp", "cgroup"),
    tasks |-> [Walk("tasks", "kept", "task_struct")
                  EXCEPT !.rests = {"no member"}, !.without = "error"],
    parent |-> OnlyIf("parent", "parent", "cgroup")]

---------------------------------------------------------------------------
(* Tasks *)

TaskLinks ==
    { TaskWalks.threads, Ptr("mm", "mm", "mm_struct"),
      Asked("active_mm", "borrows", "mm_struct"),
      TaskVmas, TaskFiles("open files", "file"), TaskFiles("sockets", "socket"),
      TaskWalks.children, Own("parent", "task_struct"),
      PtrIf("blocked on", "blocked_on", "mutex"), WorkWalks.worker,
      Own("runqueue", "rq"), Own("sched_entity", "sched_entity"), Own("cred", "cred"),
      Asked("real_cred", "acts", "cred"),
      Namespaces, TaskShm, Own("signal", "signal_struct"), CgroupWalks.cgroup,
      Ptr("fs", "fs", "fs_struct") }

SchedLinks == [
    rq |-> { Own("curr", "task_struct"), Own("idle task", "task_struct"),
             Own("cfs_rq", "cfs_rq"), FdWalks.leaves,
             Own("rt_rq", "rt_rq"), Own("dl_rq", "dl_rq") },
    cfs_rq |-> { Own("rq", "rq"), Own("task_group", "task_group"),
                 PtrIf("curr", "curr", "sched_entity") },
    sched_entity |-> { PtrIf("cfs_rq it sits on", "cfs_rq", "cfs_rq"),
                       PtrIf("my_q", "my_q", "cfs_rq"),
                       PtrIf("parent entity", "parent", "sched_entity") },
    signal_struct |-> { TaskWalks.signal, PtrIf("curr_target", "curr_target", "task_struct") },
    sched_info |-> { Own("task", "task_struct"), Own("runqueue", "rq") }]

CgroupLinks == [
    cgroup |-> { PtrIf("pressure", "psi", "psi_group"), CgroupWalks.tasks, CgroupWalks.parent },
    psi_group |-> { PtrIf("parent", "parent", "psi_group") }]

---------------------------------------------------------------------------
(* Memory *)

MemoryLinks == [
    mm_struct |-> { Walk("VMAs", "array", "vm_area_struct"), Ptr("owner", "owner", "task_struct") },
    vm_area_struct |-> { Own("mm", "mm_struct"), Ptr("file", "vm_file", "file"),
                         ResidentPages, Ptr("anon_vma", "anon_vma", "anon_vma") },
    kmem_cache |-> { Walk("allocated objects", "array", "void"), PageWalks.nextCache },
    page |-> { Own("compound head", "page"), Own("as folio", "folio"),
               PageWalks.zone, PageWalks.mappers },
    zone |-> { Own("node", "pglist_data") }]

---------------------------------------------------------------------------
(* Files and sockets *)

\* skb->dev shares its storage with dev_scratch: not 0 need not mean a device.
SkbDevice == [PtrIf("dev", "dev or scratch", "net_device")
                 EXCEPT !.rests = {"dev"}, !.without = "error"]
\* frags[0] may be device memory, which has no page: the resolver raises.
SkbFragPage == [OnlyIf("frag 0 page", "nr_frags", "page") EXCEPT !.rests = {"frag is a page"}]
\* The last sk_buff of a queue is followed by the head of the queue.
SkbNext == [PtrIf("next in queue", "next", "sk_buff")
               EXCEPT !.rests = {"next is an skb"}, !.without = "error"]

SkbLinks == { SkbDevice, PtrIf("sk", "sk", "sock"), Own("shinfo", "skb_shared_info"),
              SkbFragPage, SkbNext }

\* A file is a socket when its operations are those of sockets.
FileSocket == OnlyIf("socket", "socket_file_ops", "socket")

FileLinks == [
    file |-> { Own("dentry", "dentry"), Own("inode", "inode"), Own("f_op", "file_operations"),
               FileSocket },
    files_struct |-> { Own("fdt", "fdtable"), FdWalks.open },
    fdtable |-> { FdWalks.entries }]

\* A socket whose protocol has the number of TCP need not be a tcp_sock: the
\* cast follows the number.
AsSock(name, fact, real, to) == [OnlyIf(name, fact, to) EXCEPT !.rests = {real}]

SocketLinks == [
    socket |-> { Own("sk", "sock"), Ptr("file", "file", "file"), Own("ops", "proto_ops"),
                 MountWalks.sockfs },
    sock |-> { Ptr("socket", "sk_socket", "socket"), Own("proto", "proto"),
               AsSock("as tcp_sock", "IPPROTO_TCP", "tcp_sock", "tcp_sock"),
               AsSock("as udp_sock", "IPPROTO_UDP", "udp_sock", "udp_sock"),
               OnlyIf("as unix_sock", "AF_UNIX", "unix_sock") }]

MountLinks == [
    mount |-> { Own("superblock", "super_block"), Own("mountpoint", "dentry"),
                Own("parent mount", "mount") },
    super_block |-> { Own("root dentry", "dentry"), Own("fs type", "file_system_type"),
                      PtrIf("block device", "s_bdev", "block_device"), MountWalks.mounts }]

---------------------------------------------------------------------------
(* Block devices *)

BlockLinks == [
    gendisk |-> { Own("request queue", "request_queue"), Own("part0", "block_device"),
                  BlockWalks.partitions, Own("fops", "block_device_operations") },
    block_device |-> { Own("disk", "gendisk"), Own("request queue", "request_queue"),
                       Own("page cache", "address_space"), Own("device", "device") },
    request_queue |-> { PtrIf("disk", "disk", "gendisk"), BlockWalks.hardware,
                        BlockWalks.inFlight, PtrIf("elevator", "elevator", "elevator_queue"),
                        PtrIf("tag set", "tag_set", "blk_mq_tag_set"),
                        Own("limits", "queue_limits") }]

BlockIoLinks == [
    blk_mq_hw_ctx |-> { Own("request queue", "request_queue"), BlockWalks.software,
                        PtrIf("tags", "tags", "blk_mq_tags"),
                        PtrIf("scheduler tags", "sched_tags", "blk_mq_tags") },
    blk_mq_ctx |-> { Own("request queue", "request_queue") },
    blk_mq_tag_set |-> { Walk("queues", "self", "request_queue") },
    request |-> { PtrIf("request queue", "q", "request_queue"),
                  PtrIf("hardware queue", "mq_hctx", "blk_mq_hw_ctx"),
                  PtrIf("software queue", "mq_ctx", "blk_mq_ctx"),
                  BlockWalks.bios, PtrIf("partition", "part", "block_device") },
    bio |-> { PtrIf("block device", "bi_bdev", "block_device"),
              BlockWalks.pages, PtrIf("next bio", "bi_next", "bio") },
    elevator_queue |-> { Own("scheduler", "elevator_type") }]

---------------------------------------------------------------------------
(* System V IPC *)

IpcLinks == [
    ipc_namespace |-> { IpcWalks.queues, IpcWalks.arrays, IpcWalks.segments },
    msg_queue |-> { Own("permissions", "kern_ipc_perm"), IpcWalks.messages, IpcWalks.receivers,
                    Process("last sender", "q_lspid"), Process("last receiver", "q_lrpid") },
    sem_array |-> { Own("permissions", "kern_ipc_perm"), IpcWalks.members,
                    SemPending("pending (alter)", "pending_alter"),
                    SemPending("pending (const)", "pending_const") }]

IpcWaitLinks == [
    sem |-> { SemPending("pending (alter)", "pending_alter"),
              SemPending("pending (const)", "pending_const"),
              Process("last operation by", "sempid") },
    sem_queue |-> { PtrIf("blocked task", "sleeper", "task_struct") },
    msg_receiver |-> { PtrIf("blocked task", "r_tsk", "task_struct") },
    msg_msg |-> { PtrIf("next segment", "next", "msg_msgseg") },
    shmid_kernel |-> { Own("permissions", "kern_ipc_perm"), PtrIf("file", "shm_file", "file"),
                       PtrIf("namespace", "ns", "ipc_namespace"), Process("creator", "shm_cprid"),
                       Process("last attached or detached by", "shm_lprid") }]

---------------------------------------------------------------------------
(* Interrupts, work, locks, timers and devices *)

\* The worker of a BH pool has no task.
WorkerTask == PtrIf("task", "task", "task_struct")

WorkLinks == [
    file_system_type |-> { MountWalks.supers, PtrIf("module", "owner", "module") },
    irq_desc |-> { WorkWalks.actions, Own("irq_chip", "irq_chip"), Own("irq_data", "irq_data") },
    irqaction |-> { Own("irq_desc", "irq_desc"), PtrIf("handler thread", "thread", "task_struct"),
                    PtrIf("next action", "next", "irqaction") },
    worker_pool |-> { WorkWalks.workers, WorkWalks.worklist },
    worker |-> { WorkerTask, Ptr("pool", "pool", "worker_pool"),
                 PtrIf("current work", "current_work", "work_struct"),
                 OnlyIf("current workqueue", "current_pwq", "workqueue_struct") },
    workqueue_struct |-> { WorkWalks.pwqs, OnlyIf("rescuer", "rescuer", "task_struct") },
    pool_workqueue |-> { Own("pool", "worker_pool"), Own("workqueue", "workqueue_struct"),
                         WorkWalks.inactive }]

LockLinks == [
    mutex |-> { PtrIf("owner", "owner", "task_struct"), MutexWaiters },
    mutex_waiter |-> { Own("task", "task_struct") },
    rw_semaphore |-> { RwsemOwner },
    futex_q |-> { Own("task", "task_struct"), PtrIf("pi_state", "pi_state", "futex_pi_state") },
    rcu_data |-> { Own("rcu_node", "rcu_node") },
    rcu_node |-> { PtrIf("parent", "parent", "rcu_node") }]

TimerLinks == [
    hrtimer |-> { Own("clock base", "hrtimer_clock_base"), TimerWalks.sleeper },
    hrtimer_clock_base |-> { TimerWalks.queued, Own("cpu base", "hrtimer_cpu_base") },
    hrtimer_cpu_base |-> { TimerWalks.bases, PtrIf("next timer", "next_timer", "hrtimer") },
    timer_list |-> { DelayedWork("delayed work", "work_struct"),
                     DelayedWork("workqueue", "workqueue_struct") },
    timer_base |-> { TimerWalks.wheel, PtrIf("running timer", "running_timer", "timer_list") },
    tick_device |-> { PtrIf("clock event device", "evtdev", "clock_event_device") }]

\* A device without an irq of its own has no descriptor.
PciIrq == OnlyIf("irq line", "irq", "irq_desc")

DeviceLinks == [
    pci_dev |-> { PciIrq },
    net_device |-> { Own("namespace", "net"), Own("netdev_ops", "net_device_ops") }]

---------------------------------------------------------------------------
Tables == << [task_struct |-> TaskLinks, sk_buff |-> SkbLinks], SchedLinks, CgroupLinks, MemoryLinks,
             FileLinks, SocketLinks, MountLinks, BlockLinks, BlockIoLinks, IpcLinks,
             IpcWaitLinks, WorkLinks, LockLinks, TimerLinks, DeviceLinks >>

Linked == UNION { DOMAIN Tables[i] : i \in DOMAIN Tables }

\* links_for: a type without links has none.
Links(type) == UNION { Tables[i][type] : i \in {j \in DOMAIN Tables : type \in DOMAIN Tables[j]} }

Facts(type) == UNION { l.shown \cup l.rests : l \in Links(type) } \ {"no member"}

===============================================================================
