----------------------------- MODULE Heartbeat -----------------------------
(***************************************************************************)
(* The figures of a runner's heartbeat: how busy the processor was since   *)
(* the last one, from counters of which only the difference of two readings*)
(* says anything, and the memory and the disk in use.  The counters are    *)
(* unsigned and wrap at their width; the kernel may take back some of the  *)
(* time it had counted as idle or as waiting for a disk, which the         *)
(* collector takes for busy.  Readings fail, the runner starts again.      *)
(*                                                                         *)
(* Heartbeat loops of two sessions may overlap: the collector's lock makes *)
(* a reading and its difference one step.  Percentages are in tenths, as   *)
(* they are rounded; that they are computed in floating point is left out. *)
(***************************************************************************)
EXTENDS Naturals, Integers

CONSTANTS
    Modulus,       \* 2^64
    MegaByte,      \* 1024 kB
    Memory,        \* figures of /proc/meminfo, in kB
    Disk,          \* sizes of the file system, in blocks
    MaxTicks,      \* bound: times the counters advance
    MaxStep,       \* bound: how far in one of them
    MaxMishaps,    \* bound: failing readings, restarts, time taken back
    None           \* no reading yet

HeartbeatAssumption ==
    /\ Modulus \in Nat /\ Modulus > 2 * MaxStep * MaxTicks
    /\ MegaByte \in Nat \ {0} /\ Memory \subseteq Nat \ {0}
    /\ Disk \subseteq Nat \ {0}
    /\ MaxTicks \in Nat /\ MaxStep \in Nat /\ MaxMishaps \in Nat

VARIABLES
    kernel,    \* time spent since the machine started: [busy, idle]
    last,      \* the collector's lastCPUTotal and lastCPUIdle: [total, idle]
    cpu,       \* the last percentage, in tenths
    memory,    \* the last memory figures: [used, total]
    disk,      \* the last percentage of the disk, in tenths
    ticks,     \* advances of the counters so far
    mishaps,   \* mishaps so far
    seen,      \* history: the true counters at the last reading, or None
    span       \* history: what passed between the last two, or None

vars == <<kernel, last, cpu, memory, disk, ticks, mishaps, seen, span>>

Never == [total |-> 0, idle |-> 0]

Init ==
    /\ kernel \in [busy : 0..1, idle : {1, Modulus - 1}]
    /\ last = Never /\ cpu = 0 /\ memory = [used |-> 0, total |-> 0] /\ disk = 0
    /\ ticks = 0 /\ mishaps = 0 /\ seen = None /\ span = None

Mishap == mishaps < MaxMishaps /\ mishaps' = mishaps + 1

TimePasses ==
    /\ ticks < MaxTicks /\ ticks' = ticks + 1
    /\ \E busy, idle \in 0..MaxStep :
          kernel' = [busy |-> kernel.busy + busy, idle |-> kernel.idle + idle]
    /\ UNCHANGED <<last, cpu, memory, disk, mishaps, seen, span>>

TimeTakenBack ==
    /\ Mishap
    /\ \/ kernel.idle > 0 /\ kernel' = [kernel EXCEPT !.idle = @ - 1]
       \/ kernel.busy > 0 /\ kernel' = [kernel EXCEPT !.busy = @ - 1]
    /\ UNCHANGED <<last, cpu, memory, disk, ticks, seen, span>>

Tenths(part, whole) == IF part >= whole THEN 1000 ELSE (1000 * part) \div whole

(* What /proc/stat adds up to; the difference to the last reading is taken *)
(* in unsigned arithmetic.                                                 *)
Reading == [total |-> (kernel.busy + kernel.idle) % Modulus, idle |-> kernel.idle % Modulus]
Delta(new, old) == (new - old) % Modulus

(* Mutant: the idle counter of the last reading is not kept.               *)
CollectForgetsIdle ==
    LET total == Delta(Reading.total, last.total)
        used == Delta(total, Delta(Reading.idle, last.idle))
    IN  /\ last' = [Reading EXCEPT !.idle = last.idle]
        /\ cpu' = IF last.total = 0 \/ total = 0 THEN 0 ELSE Tenths(used, total)

(* collectCPU: the first reading, taken for one by a total of zero, only   *)
(* sets the mark.                                                          *)
CollectCPU ==
    LET total == Delta(Reading.total, last.total)
        used == Delta(total, Delta(Reading.idle, last.idle))
    IN  /\ last' = Reading
        /\ cpu' = IF last.total = 0 \/ total = 0 THEN 0 ELSE Tenths(used, total)

Since == [busy |-> kernel.busy - seen.busy, idle |-> kernel.idle - seen.idle]

(* collectMemory; a kernel may say that more is available than there is.   *)
CollectMemory ==
    \E total, available \in Memory :
        memory' = [used |-> IF total >= available THEN (total - available) \div MegaByte ELSE 0,
                   total |-> total \div MegaByte]

(* Without /proc/meminfo the figures are those of the runner's own memory. *)
OwnMemory ==
    \E allocated, sys \in Memory :
        LET used == allocated \div MegaByte IN
        memory' = [used |-> used,
                   total |-> IF sys \div MegaByte > used THEN sys \div MegaByte ELSE used]

(* collectDisk; a file system that cannot be asked, or has no blocks, is   *)
(* empty.                                                                  *)
CollectDisk ==
    \/ disk' = 0
    \/ \E blocks \in Disk : \E free \in 0..blocks : disk' = Tenths(blocks - free, blocks)

Others == (CollectMemory \/ OwnMemory) /\ CollectDisk

Collect ==
    /\ CollectCPU /\ Others
    /\ seen' = kernel
    /\ span' = IF seen = None \/ last.total = 0 THEN None ELSE Since
    /\ UNCHANGED <<kernel, ticks, mishaps>>

(* /proc/stat cannot be read: no percentage, and no new mark.              *)
CollectUnread ==
    /\ Mishap /\ cpu' = 0 /\ span' = None
    /\ Others
    /\ UNCHANGED <<kernel, last, ticks, seen>>

NewMetricsCollector ==
    /\ Mishap /\ last' = Never /\ cpu' = 0 /\ memory' = [used |-> 0, total |-> 0]
    /\ disk' = 0 /\ seen' = None /\ span' = None
    /\ UNCHANGED <<kernel, ticks>>

(* A tick of runHeartbeat; whether the figures arrive changes nothing here.*)
RunHeartbeat == Collect \/ CollectUnread

Next == TimePasses \/ TimeTakenBack \/ RunHeartbeat \/ NewMetricsCollector

Spec == Init /\ [][Next]_vars
----------------------------------------------------------------------------
(* The types of the variables; the memory in use is part of the total.     *)
TypeOK ==
    /\ kernel \in [busy : Nat, idle : Nat]
    /\ last \in [total : 0..(Modulus - 1), idle : 0..(Modulus - 1)]
    /\ cpu \in 0..1000
    /\ memory \in [used : Nat, total : Nat] /\ memory.used <= memory.total
    /\ disk \in 0..1000
    /\ ticks \in 0..MaxTicks /\ mishaps \in 0..MaxMishaps
    /\ seen \in [busy : Nat, idle : Nat] \union {None}
    /\ span \in [busy : Int, idle : Int] \union {None}

(* Wherever the counters wrap and however many readings failed in between, *)
(* the percentage is that of the time since the last one that did not - and*)
(* if the kernel took idle time back meanwhile, a machine that did nothing *)
(* is not taken for a busy one by the wrap of the difference.  Of a machine*)
(* that was busy while idle time was taken back nothing is said            *)
(* (runner.MetricsCollector.collectCPU).                                   *)
CpuHonest ==
    span # None =>
        /\ span.busy >= 0 /\ span.idle >= 0 /\ span.busy + span.idle > 0
             => cpu = (1000 * span.busy) \div (span.busy + span.idle)
        /\ span.busy = 0 => cpu = 0
=============================================================================
