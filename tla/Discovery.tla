----------------------------- MODULE Discovery -----------------------------
(***************************************************************************)
(* The scans of src/sqm/discovery.cpp: the hosts of a CIDR block, or the   *)
(* serial devices by their stable and their kernel names, probed by a pool *)
(* of threads that take the next index from a shared counter and collect   *)
(* what answers under a mutex; the caller joins them and sorts.            *)
(*                                                                         *)
(* An address has Width bits (32 in the code) and is unsigned: sums wrap.  *)
(* A serial device is a port (the file a name resolves to) under one or    *)
(* more names; a port opened while another thread has it is busy, as is    *)
(* one the daemon's own worker has claimed, which does not answer.         *)
(***************************************************************************)
EXTENDS Naturals, Sequences, FiniteSets

CONSTANTS
  Width,      \* bits of an address
  MaxHosts,   \* the largest block that is scanned (65536)
  Threads,    \* threads the pool may have
  Bases,      \* addresses a request may name
  Ports,      \* serial ports of the machine
  Links,      \* functions from by-id names to what they point to
  MaxUnits,   \* bound: units on the network
  NoItem

Pow2[n \in 0..Width] == IF n = 0 THEN 1 ELSE 2 * Pow2[n - 1]

Size == Pow2[Width]

(* The stable names (in /dev/serial/by-id) are not those of the ports.     *)
ASSUME DiscoveryAssumption ==
  /\ Width \in Nat \ {0, 1} /\ MaxHosts \in Nat \ {0}
  /\ Bases \subseteq 0..(Size - 1)
  /\ MaxUnits \in Nat \ {0}
  /\ IsFiniteSet(Threads) /\ Threads # {}
  /\ IsFiniteSet(Ports)
  /\ \A link \in Links : IsFiniteSet(DOMAIN link) /\ DOMAIN link \cap Ports = {}
  /\ NoItem \notin 0..(Size - 1) \cup Ports \cup UNION {DOMAIN link : link \in Links}

VARIABLES
  scan,     \* what was asked for: a block, or the serial ports
  items,    \* the addresses or device names to probe
  answers,  \* environment: the addresses or ports at which an SQM answers
  next,     \* the shared counter
  holds,    \* the item each thread is probing
  ends,     \* threads that have returned
  results,  \* what was found so far
  scanned   \* "running", "done" or "error"

scanVars == <<scan, items, answers, next, holds, ends, results, scanned>>

-----------------------------------------------------------------------------
(* cidr_hosts.                                                             *)

(* network = ip & mask, broadcast = network | ~mask *)
Network(ip, prefix)   == ip - (ip % Pow2[Width - prefix])
Broadcast(ip, prefix) == Network(ip, prefix) + Pow2[Width - prefix] - 1

(* Fault: a block of four addresses keeps its ends. *)
InnerTooNarrow(prefix) == prefix < Width - 2

(* prefix <= 30: network and broadcast address are left out. *)
Inner(prefix) == prefix <= Width - 2

First(ip, prefix) == (Network(ip, prefix) + (IF Inner(prefix) THEN 1 ELSE 0)) % Size
Last(ip, prefix)  == (Broadcast(ip, prefix) + Size - (IF Inner(prefix) THEN 1 ELSE 0)) % Size

(* In 64 bits: huge where it would be negative. *)
Count(ip, prefix) ==
  IF Last(ip, prefix) + 1 < First(ip, prefix) THEN MaxHosts + 1
  ELSE Last(ip, prefix) + 1 - First(ip, prefix)

(* The loop from first until it has done last, which may be 0xFFFFFFFF. *)
CidrHosts(ip, prefix) ==
  [i \in 1..(1 + ((Last(ip, prefix) + Size - First(ip, prefix)) % Size))
     |-> (First(ip, prefix) + i - 1) % Size]

Refused(ip, prefix) == prefix \notin 0..Width \/ Count(ip, prefix) > MaxHosts

-----------------------------------------------------------------------------
(* enumerate_serial_devices: by-id names first, then the kernel's, each if *)
(* what it resolves to was not queued before.                              *)

(* realpath; a link to nothing stands for itself. *)
Resolve(link, name) ==
  IF name \in DOMAIN link /\ link[name] \in Ports THEN link[name] ELSE name

(* Some order of a set: readdir promises none. *)
Orders(S) == {s \in [1..Cardinality(S) -> S] : \A x \in S : \E i \in DOMAIN s : s[i] = x}

Seen(link, queue, name) ==
  \E i \in DOMAIN queue : Resolve(link, queue[i]) = Resolve(link, name)

(* add() *)
Add(link, queue, name) == IF Seen(link, queue, name) THEN queue ELSE Append(queue, name)

(* Over the names in the order they were read. *)
Queue(link, names) ==
  LET q[n \in 0..Len(names)] == IF n = 0 THEN << >> ELSE Add(link, q[n - 1], names[n])
  IN  q[Len(names)]

SerialDevices(link) ==
  {Queue(link, ids \o ttys) : ids \in Orders(DOMAIN link), ttys \in Orders(Ports)}

-----------------------------------------------------------------------------
Target(item) == IF scan.kind = "net" THEN item ELSE Resolve(scan.link, item)

(* nthreads = max(1, min(concurrency, hosts)) *)
PoolSize(n) == IF n = 0 THEN 1 ELSE IF n < Cardinality(Threads) THEN n ELSE Cardinality(Threads)

(* A few of a set. *)
Some(S) == {{}} \cup {{f[i] : i \in 1..MaxUnits} : f \in [1..MaxUnits -> S]}

ScanState(what, list, who, state) ==
  /\ scan = what /\ items = list /\ answers \in Some(who)
  /\ next = 1 /\ results = << >> /\ scanned = state
  /\ holds = [t \in Threads |-> NoItem]
  /\ \E pool \in SUBSET Threads : /\ Cardinality(pool) = PoolSize(Len(list))
                                  /\ ends = Threads \ pool

(* discover: a malformed or too large block is an error. *)
NetInit ==
  \E ip \in Bases, prefix \in 0..(Width + 1) :
    LET what == [kind |-> "net", ip |-> ip, prefix |-> prefix] IN
    IF Refused(ip, prefix)
    THEN ScanState(what, << >>, {}, "error")
    ELSE ScanState(what, CidrHosts(ip, prefix), 0..(Size - 1), "running")

(* discover_serial: no devices, no threads. *)
SerialInit ==
  \E link \in Links : \E list \in SerialDevices(link) :
    ScanState([kind |-> "serial", link |-> link], list, Ports,
              IF list = << >> THEN "done" ELSE "running")

ScanInit == NetInit \/ SerialInit

-----------------------------------------------------------------------------
Idle(t) == t \notin ends /\ holds[t] = NoItem

(* next.fetch_add(1), one step. *)
Claim(t) ==
  /\ scanned = "running" /\ Idle(t) /\ next <= Len(items)
  /\ holds' = [holds EXCEPT ![t] = items[next]]
  /\ next' = next + 1
  /\ UNCHANGED <<scan, items, answers, ends, results, scanned>>

Retire(t) ==
  /\ scanned = "running" /\ Idle(t) /\ next > Len(items)
  /\ ends' = ends \cup {t}
  /\ next' = next
  /\ UNCHANGED <<scan, items, answers, holds, results, scanned>>

Busy(t) ==
  /\ scan.kind = "serial"
  /\ \E u \in Threads \ {t} : holds[u] # NoItem /\ Target(holds[u]) = Target(holds[t])

(* The unit answers to ix: keep it. *)
ProbeAnswers(t) ==
  /\ holds[t] # NoItem /\ Target(holds[t]) \in answers /\ ~Busy(t)
  /\ results' = Append(results, holds[t])
  /\ holds' = [holds EXCEPT ![t] = NoItem]
  /\ UNCHANGED <<scan, items, answers, next, ends, scanned>>

(* Unreachable, not an SQM, or busy: skip it. *)
ProbeFails(t) ==
  /\ holds[t] # NoItem /\ (Target(holds[t]) \notin answers \/ Busy(t))
  /\ holds' = [holds EXCEPT ![t] = NoItem]
  /\ UNCHANGED <<scan, items, answers, next, ends, results, scanned>>

(* join, then sort (addresses by number; the order of names is not         *)
(* modelled).                                                              *)
Return ==
  /\ scanned = "running" /\ ends = Threads
  /\ scanned' = "done"
  /\ results' = IF scan.kind = "net"
                THEN CHOOSE s \in Orders({results[i] : i \in DOMAIN results}) :
                       \A i, j \in DOMAIN s : i < j => s[i] < s[j]
                ELSE results
  /\ UNCHANGED <<scan, items, answers, next, holds, ends>>

ScanNext ==
  \/ Return
  \/ \E t \in Threads : Claim(t) \/ Retire(t) \/ ProbeAnswers(t) \/ ProbeFails(t)

ScanSpec == ScanInit /\ [][ScanNext]_scanVars

-----------------------------------------------------------------------------
(* The addresses of a block that a host may have: those that agree with it *)
(* in the prefix, without the first and the last unless there are only     *)
(* one or two.                                                             *)
Block(ip, prefix) ==
  LET same == {a \in 0..(Size - 1) : a \div Pow2[Width - prefix] = ip \div Pow2[Width - prefix]}
  IN  IF Cardinality(same) <= 2 THEN same
      ELSE {a \in same : (\E b \in same : b < a) /\ (\E b \in same : b > a)}

(* Whatever the order in which the threads take and finish their probes, a *)
(* scan that returns has found every unit that answers, each once: of a    *)
(* block every host in ascending order, at every prefix and at both ends   *)
(* of the address space; of the serial ports each under one name, a stable *)
(* one if it has any.                                                      *)
ScanComplete ==
  scanned = "done" =>
    /\ \A i, j \in DOMAIN results : i # j => Target(results[i]) # Target(results[j])
    /\ IF scan.kind = "net"
       THEN /\ {results[i] : i \in DOMAIN results} = Block(scan.ip, scan.prefix) \cap answers
            /\ \A i, j \in DOMAIN results : i < j => results[i] < results[j]
       ELSE /\ {Target(results[i]) : i \in DOMAIN results} = answers
            /\ \A i \in DOMAIN results :
                 results[i] \in Ports => \A n \in DOMAIN scan.link : scan.link[n] # results[i]
=============================================================================
