----------------------------- MODULE AhciProofs ----------------------------
(***************************************************************************)
(* What the SATA driver keeps for any number of ports, any drives, buffer  *)
(* and requests, whatever the adapter does: memory the adapter may reach   *)
(* is held, and only disks that answered are published.  And how it is     *)
(* found (Pci), in any configuration space: each place is listed at most   *)
(* once, no function 0 is missed, and only a controller is given access to *)
(* memory.                                                                 *)
(***************************************************************************)
EXTENDS Ahci, Pci, SequenceTheorems, FiniteSetTheorems, TLAPS

Bringup   == {"stop", "alloc", "start", "tables"}
Polling   == {"poll_ci", "poll_is", "poll_time", "check"}
Working   == {"submit", "submit_wait", "issue"} \cup Polling
Reading   == {"read_wait", "setup"}
Pages     == {"clb", "fb", "table", "buffer"}
InCommand == {"fetched", "moved", "posted"}

Commands  == [lba : 0 .. U64, count : Int]
Registers == [st : BOOLEAN, fre : BOOLEAN, engine : BOOLEAN, busy : BOOLEAN, err : BOOLEAN,
              tfes : BOOLEAN, ci : BOOLEAN, phase : {"idle", "halted"} \cup InCommand,
              cmd : Commands]

TypeInv ==
  /\ pc \in {"handoff", "scan", "idle", "panic"} \cup Bringup \cup Working \cup Reading
  /\ port \in 1 .. PortCount + 1 /\ op \in {"identify", "read"}
  /\ hba \in [Ports -> Registers]
  /\ table \in [Ports -> Commands]
  /\ buffer \in [Ports -> [1 .. MaxSectors -> Int]]
  /\ held \in [Ports -> SUBSET Pages]
  /\ ready \subseteq Ports /\ registered \in Seq(Ports)
  /\ req \in [lba : 0 .. U64 - 1, count : 0 .. U64 - 1] /\ got \in Seq(Int)

\* What the CPU relies on where it is.
CpuInv ==
  /\ pc \in Bringup \cup Working \cup Reading => port \in LinkUp
  /\ op = "identify" => pc \notin Reading \cup {"idle"}
  /\ op = "read" => pc \in {"idle"} \cup Working \cup Reading
  /\ pc \in {"start", "tables"} => {"clb", "fb"} \subseteq held[port]
  /\ pc \in Working \cup Reading => held[port] = Pages
  /\ pc \in {"tables"} \cup Working /\ op = "identify" => hba[port].st
  /\ pc \in Working /\ op = "identify" => table[port] = Identify
  /\ pc \in Working \cup Reading /\ op = "read" => Len(got) < req.count
  /\ pc = "check" => ~ hba[port].ci

\* The driver has not issued a command on the port yet.
Fresh(p) == op = "identify" /\ (p > port \/ (p = port /\ pc \notin Polling \cup {"panic"}))

SlotInv ==
  \A p \in Ports :
    /\ hba[p].phase \in InCommand => hba[p].ci
    /\ hba[p].ci => {"table", "buffer"} \subseteq held[p]
    /\ Fresh(p) => ~ hba[p].ci /\ ~ hba[p].err

\* A command that seems to have ended well has filled the buffer.
Ended(p) == hba[p].phase \in {"moved", "posted"} \/ (~ hba[p].ci /\ ~ hba[p].err)

AnswerInv ==
  op = "identify" /\ pc \in Polling =>
    /\ hba[port].phase = "fetched" => hba[port].cmd = Identify
    /\ Ended(port) => buffer[port][1] # Junk

PublishInv ==
  /\ \A p \in ready \cup Drives : p \in LinkUp /\ (op = "read" \/ p < port)
  /\ PublishedOnlyReady

IInv == TypeInv /\ CpuInv /\ SlotInv /\ AnswerInv /\ PublishInv /\ DmaMemoryIsHeld

-----------------------------------------------------------------------------
LEMMA Constants ==
  /\ PortCount \in Nat \ {0} /\ LinkUp \subseteq Ports /\ Ports = 1 .. PortCount
  /\ MaxSectors \in Nat \ {0} /\ U64 \in Nat \ {0} /\ Lba28Limit \in Nat \ {0}
  /\ Identify \in Commands /\ Identify.lba = U64 /\ Identify.count = 1 /\ NoCommand \in Commands
  /\ Junk \in Int /\ Junk > U64
BY AhciAssumption DEF Ports, Identify, NoCommand, Commands, Junk

LEMMA DrivesArePorts == TypeInv => Drives \subseteq Ports
BY DEF TypeInv, Drives

LEMMA InitInvariant == Init => IInv
<1> SUFFICES ASSUME Init PROVE IInv
  OBVIOUS
<1> USE Constants
<1>1. PICK engine \in BOOLEAN, busy \in BOOLEAN :
        hba = [p \in Ports |-> [st |-> engine, fre |-> engine, engine |-> engine, busy |-> busy,
                               err |-> FALSE, tfes |-> FALSE, ci |-> FALSE,
                               phase |-> "idle", cmd |-> NoCommand]]
  BY DEF Init
<1>2. TypeInv
  BY <1>1 DEF Init, TypeInv, Registers, NoCommand
<1>3. Drives = {}
  BY DEF Init, Drives
<1>4. CpuInv /\ AnswerInv
  BY DEF Init, CpuInv, AnswerInv, Bringup, Working, Polling, Reading
<1>5. SlotInv
  BY <1>1 DEF SlotInv, InCommand
<1>6. PublishInv
  BY <1>3 DEF Init, PublishInv, PublishedOnlyReady
<1>7. DmaMemoryIsHeld
  BY <1>1 DEF Init, DmaMemoryIsHeld, TakenOver
<1> QED
  BY <1>2, <1>4, <1>5, <1>6, <1>7 DEF IInv

-----------------------------------------------------------------------------
(* The adapter.  It starts nothing by itself, and what it writes is not junk. *)

LEMMA AdapterPreserves ==
  ASSUME IInv, NEW p \in LinkUp,
         hba' \in [Ports -> Registers], \A q \in Ports \ {p} : hba'[q] = hba[q],
         hba'[p].st = hba[p].st, hba'[p].fre = hba[p].fre,
         hba'[p].ci => hba[p].ci,
         hba'[p].phase \in InCommand => hba'[p].ci,
         hba'[p].err => hba[p].err \/ hba[p].ci,
         hba'[p].phase = "fetched" =>
           hba'[p].cmd = table[p] \/ (hba[p].phase = "fetched" /\ hba'[p].cmd = hba[p].cmd),
         buffer' \in [Ports -> [1 .. MaxSectors -> Int]],
         \A q \in Ports \ {p} : buffer'[q] = buffer[q],
         buffer'[p][1] = buffer[p][1] \/ buffer'[p][1] # Junk,
         Ended(p)' => Ended(p) \/ buffer'[p][1] # Junk \/ (hba[p].phase = "fetched" /\ hba[p].cmd # Identify),
         UNCHANGED <<pc, port, op, table, held, ready, registered, req, got>>
  PROVE  IInv'
<1> USE Constants
<1>1. TypeInv'
  BY DEF IInv, TypeInv
<1>2. CpuInv'
  BY DEF IInv, CpuInv, TypeInv
<1>3. SlotInv'
  BY ZenonT(30) DEF IInv, SlotInv, Fresh
<1>4. AnswerInv'
  <2> SUFFICES ASSUME op = "identify", pc \in Polling
               PROVE  /\ hba'[port].phase = "fetched" => hba'[port].cmd = Identify
                      /\ Ended(port)' => buffer'[port][1] # Junk
    BY DEF AnswerInv
  <2>1. port \in LinkUp /\ table[port] = Identify
    BY DEF IInv, CpuInv, Working
  <2>2. /\ hba[port].phase = "fetched" => hba[port].cmd = Identify
        /\ Ended(port) => buffer[port][1] # Junk
    BY DEF IInv, AnswerInv
  <2>3. CASE port = p
    BY <2>1, <2>2, <2>3
  <2>4. CASE port # p
    BY <2>1, <2>2, <2>4 DEF Ended
  <2> QED
    BY <2>3, <2>4
<1>5. PublishInv'
  <2>1. Drives' = Drives /\ Drives \subseteq Ports /\ ready \subseteq Ports
    <3>1. Drives' = Drives
      BY DEF Drives
    <3>2. Drives \subseteq Ports /\ ready \subseteq Ports
      BY DrivesArePorts DEF IInv, TypeInv
    <3> QED
      BY <3>1, <3>2
  <2>2. SUFFICES ASSUME NEW q \in ready \cup Drives
                 PROVE  /\ q \in LinkUp /\ (op = "read" \/ q < port)
                        /\ hba'[q].st /\ held[q] = {"clb", "fb", "table", "buffer"}
                        /\ buffer'[q][1] # Junk
    BY <2>1 DEF PublishInv, PublishedOnlyReady
  <2>3. /\ q \in Ports
        /\ q \in LinkUp /\ (op = "read" \/ q < port)
        /\ hba[q].st /\ held[q] = {"clb", "fb", "table", "buffer"}
        /\ buffer[q][1] # Junk
    BY <2>1 DEF IInv, PublishInv, PublishedOnlyReady
  <2>4. CASE q = p
    BY <2>3, <2>4
  <2>5. CASE q # p
    BY <2>3, <2>5
  <2> QED
    BY <2>4, <2>5
<1>6. DmaMemoryIsHeld'
  <2>1. SUFFICES ASSUME NEW q \in LinkUp
                 PROVE  /\ (hba'[q].fre /\ TakenOver(q)) => {"clb", "fb"} \subseteq held[q]
                        /\ hba'[q].ci => {"table", "buffer"} \subseteq held[q]
    BY DEF DmaMemoryIsHeld, TakenOver
  <2>2. /\ (hba[q].fre /\ TakenOver(q)) => {"clb", "fb"} \subseteq held[q]
        /\ hba[q].ci => {"table", "buffer"} \subseteq held[q]
    BY DEF IInv, DmaMemoryIsHeld
  <2>3. CASE q = p
    BY <2>2, <2>3
  <2>4. CASE q # p
    BY <2>2, <2>4
  <2> QED
    BY <2>3, <2>4
<1> QED
  BY <1>1, <1>2, <1>3, <1>4, <1>5, <1>6 DEF IInv

LEMMA AdapterInvariant == ASSUME IInv, NEW p \in LinkUp, Adapter(p) PROVE IInv'
<1> USE Constants
<1>0. /\ p \in Ports /\ hba[p] \in Registers /\ table[p] \in Commands
      /\ hba \in [Ports -> Registers] /\ buffer \in [Ports -> [1 .. MaxSectors -> Int]]
  BY DEF IInv, TypeInv
<1>s. hba[p].phase \in InCommand => hba[p].ci
  BY <1>0 DEF IInv, SlotInv
<1>1. CASE EngineFollows(p)
  <2>1. hba' = [hba EXCEPT ![p] = [hba[p] EXCEPT !.engine = hba[p].st]]
    BY <1>1 DEF EngineFollows
  <2>2. /\ hba' \in [Ports -> Registers]
        /\ \A q \in Ports \ {p} : hba'[q] = hba[q]
        /\ hba'[p].st = hba[p].st /\ hba'[p].fre = hba[p].fre
    BY <1>0, <2>1 DEF Registers, InCommand
  <2>3. UNCHANGED <<pc, port, op, table, held, ready, registered, req, got>>
    BY <1>1 DEF EngineFollows, Others, cpu, disks, call
  <2>4. buffer' = buffer
    BY <1>1 DEF EngineFollows
  <2>5. /\ hba'[p].ci => hba[p].ci
        /\ hba'[p].phase \in InCommand => hba'[p].ci
        /\ hba'[p].err => hba[p].err \/ hba[p].ci
        /\ hba'[p].phase = "fetched" =>
             hba'[p].cmd = table[p] \/ (hba[p].phase = "fetched" /\ hba'[p].cmd = hba[p].cmd)
    BY <1>0, <1>s, <1>1, <2>1 DEF EngineFollows, Registers, InCommand
  <2>6. Ended(p)' => Ended(p) \/ buffer'[p][1] # Junk \/ (hba[p].phase = "fetched" /\ hba[p].cmd # Identify)
    BY <1>0, <1>s, <1>1, <2>1 DEF EngineFollows, Registers, Ended, InCommand
  <2> QED
    BY <1>0, <2>2, <2>3, <2>4, <2>5, <2>6, AdapterPreserves
<1>2. CASE DriveSpunUp(p)
  <2>1. hba' = [hba EXCEPT ![p] = [hba[p] EXCEPT !.busy = FALSE]]
    BY <1>2 DEF DriveSpunUp
  <2>2. /\ hba' \in [Ports -> Registers]
        /\ \A q \in Ports \ {p} : hba'[q] = hba[q]
        /\ hba'[p].st = hba[p].st /\ hba'[p].fre = hba[p].fre
    BY <1>0, <2>1 DEF Registers, InCommand
  <2>3. UNCHANGED <<pc, port, op, table, held, ready, registered, req, got>>
    BY <1>2 DEF DriveSpunUp, Others, cpu, disks, call
  <2>4. buffer' = buffer
    BY <1>2 DEF DriveSpunUp
  <2>5. /\ hba'[p].ci => hba[p].ci
        /\ hba'[p].phase \in InCommand => hba'[p].ci
        /\ hba'[p].err => hba[p].err \/ hba[p].ci
        /\ hba'[p].phase = "fetched" =>
             hba'[p].cmd = table[p] \/ (hba[p].phase = "fetched" /\ hba'[p].cmd = hba[p].cmd)
    BY <1>0, <1>s, <1>2, <2>1 DEF DriveSpunUp, Registers, InCommand
  <2>6. Ended(p)' => Ended(p) \/ buffer'[p][1] # Junk \/ (hba[p].phase = "fetched" /\ hba[p].cmd # Identify)
    BY <1>0, <1>s, <1>2, <2>1 DEF DriveSpunUp, Registers, Ended, InCommand
  <2> QED
    BY <1>0, <2>2, <2>3, <2>4, <2>5, <2>6, AdapterPreserves
<1>3. CASE Fetch(p)
  <2>1. hba' = [hba EXCEPT ![p] = [hba[p] EXCEPT !.phase = "fetched", !.busy = TRUE, !.cmd = table[p]]]
    BY <1>3 DEF Fetch
  <2>2. /\ hba' \in [Ports -> Registers]
        /\ \A q \in Ports \ {p} : hba'[q] = hba[q]
        /\ hba'[p].st = hba[p].st /\ hba'[p].fre = hba[p].fre
    BY <1>0, <2>1 DEF Registers, InCommand
  <2>3. UNCHANGED <<pc, port, op, table, held, ready, registered, req, got>>
    BY <1>3 DEF Fetch, Others, cpu, disks, call
  <2>4. buffer' = buffer
    BY <1>3 DEF Fetch
  <2>5. /\ hba'[p].ci => hba[p].ci
        /\ hba'[p].phase \in InCommand => hba'[p].ci
        /\ hba'[p].err => hba[p].err \/ hba[p].ci
        /\ hba'[p].phase = "fetched" =>
             hba'[p].cmd = table[p] \/ (hba[p].phase = "fetched" /\ hba'[p].cmd = hba[p].cmd)
    BY <1>0, <1>s, <1>3, <2>1 DEF Fetch, Registers, InCommand
  <2>6. Ended(p)' => Ended(p) \/ buffer'[p][1] # Junk \/ (hba[p].phase = "fetched" /\ hba[p].cmd # Identify)
    BY <1>0, <1>s, <1>3, <2>1 DEF Fetch, Registers, Ended, InCommand
  <2> QED
    BY <1>0, <2>2, <2>3, <2>4, <2>5, <2>6, AdapterPreserves
<1>4. CASE Transfer(p)
  <2>1. hba' = [hba EXCEPT ![p] = [hba[p] EXCEPT !.phase = "moved"]]
    BY <1>4 DEF Transfer
  <2>2. /\ hba' \in [Ports -> Registers]
        /\ \A q \in Ports \ {p} : hba'[q] = hba[q]
        /\ hba'[p].st = hba[p].st /\ hba'[p].fre = hba[p].fre
    BY <1>0, <2>1 DEF Registers, InCommand
  <2>3. UNCHANGED <<pc, port, op, table, held, ready, registered, req, got>>
    BY <1>4 DEF Transfer, Others, cpu, disks, call
  <2>4. /\ buffer' \in [Ports -> [1 .. MaxSectors -> Int]]
        /\ \A q \in Ports \ {p} : buffer'[q] = buffer[q]
        /\ buffer'[p][1] = buffer[p][1] \/ buffer'[p][1] # Junk
    <3> DEFINE c == hba[p].cmd
               new == [i \in 1 .. MaxSectors |-> IF i <= c.count THEN c.lba + i - 1 ELSE buffer[p][i]]
    <3>1. c.lba \in 0 .. U64 /\ c.count \in Int
      BY <1>0 DEF Registers, Commands
    <3>2. buffer' = [buffer EXCEPT ![p] = new]
      BY <1>0, <1>4 DEF Transfer
    <3>3. new \in [1 .. MaxSectors -> Int]
      <4>1. \A i \in 1 .. MaxSectors : buffer[p][i] \in Int
        BY <1>0
      <4>2. c.lba \in Int
        BY <3>1
      <4> HIDE DEF c
      <4>3. \A i \in 1 .. MaxSectors : c.lba + i - 1 \in Int
        BY <4>2
      <4> QED
        BY <4>1, <4>3
    <3>4. new[1] = buffer[p][1] \/ new[1] # Junk
      BY <3>1
    <3> QED
      BY <1>0, <3>2, <3>3, <3>4
  <2>5. /\ hba'[p].ci => hba[p].ci
        /\ hba'[p].phase \in InCommand => hba'[p].ci
        /\ hba'[p].err => hba[p].err \/ hba[p].ci
        /\ hba'[p].phase = "fetched" =>
             hba'[p].cmd = table[p] \/ (hba[p].phase = "fetched" /\ hba'[p].cmd = hba[p].cmd)
    BY <1>0, <1>s, <1>4, <2>1 DEF Transfer, Registers, InCommand
  <2>6. Ended(p)' => Ended(p) \/ buffer'[p][1] # Junk \/ (hba[p].phase = "fetched" /\ hba[p].cmd # Identify)
    <3>1. CASE hba[p].cmd = Identify
      BY <1>0, <1>4, <3>1 DEF Transfer, Junk, Identify
    <3>2. CASE hba[p].cmd # Identify
      BY <1>4, <3>2 DEF Transfer
    <3> QED
      BY <3>1, <3>2
  <2> QED
    BY <1>0, <2>2, <2>3, <2>4, <2>5, <2>6, AdapterPreserves
<1>5. CASE PostStatus(p)
  <2>1. hba' = [hba EXCEPT ![p] = [hba[p] EXCEPT !.phase = "posted", !.busy = FALSE, !.err = FALSE]]
    BY <1>5 DEF PostStatus
  <2>2. /\ hba' \in [Ports -> Registers]
        /\ \A q \in Ports \ {p} : hba'[q] = hba[q]
        /\ hba'[p].st = hba[p].st /\ hba'[p].fre = hba[p].fre
    BY <1>0, <2>1 DEF Registers, InCommand
  <2>3. UNCHANGED <<pc, port, op, table, held, ready, registered, req, got>>
    BY <1>5 DEF PostStatus, Others, cpu, disks, call
  <2>4. buffer' = buffer
    BY <1>5 DEF PostStatus
  <2>5. /\ hba'[p].ci => hba[p].ci
        /\ hba'[p].phase \in InCommand => hba'[p].ci
        /\ hba'[p].err => hba[p].err \/ hba[p].ci
        /\ hba'[p].phase = "fetched" =>
             hba'[p].cmd = table[p] \/ (hba[p].phase = "fetched" /\ hba'[p].cmd = hba[p].cmd)
    BY <1>0, <1>s, <1>5, <2>1 DEF PostStatus, Registers, InCommand
  <2>6. Ended(p)' => Ended(p) \/ buffer'[p][1] # Junk \/ (hba[p].phase = "fetched" /\ hba[p].cmd # Identify)
    BY <1>0, <1>s, <1>5, <2>1 DEF PostStatus, Registers, Ended, InCommand
  <2> QED
    BY <1>0, <2>2, <2>3, <2>4, <2>5, <2>6, AdapterPreserves
<1>6. CASE ClearSlot(p)
  <2>1. hba' = [hba EXCEPT ![p] = [hba[p] EXCEPT !.phase = "idle", !.ci = FALSE]]
    BY <1>6 DEF ClearSlot
  <2>2. /\ hba' \in [Ports -> Registers]
        /\ \A q \in Ports \ {p} : hba'[q] = hba[q]
        /\ hba'[p].st = hba[p].st /\ hba'[p].fre = hba[p].fre
    BY <1>0, <2>1 DEF Registers, InCommand
  <2>3. UNCHANGED <<pc, port, op, table, held, ready, registered, req, got>>
    BY <1>6 DEF ClearSlot, Others, cpu, disks, call
  <2>4. buffer' = buffer
    BY <1>6 DEF ClearSlot
  <2>5. /\ hba'[p].ci => hba[p].ci
        /\ hba'[p].phase \in InCommand => hba'[p].ci
        /\ hba'[p].err => hba[p].err \/ hba[p].ci
        /\ hba'[p].phase = "fetched" =>
             hba'[p].cmd = table[p] \/ (hba[p].phase = "fetched" /\ hba'[p].cmd = hba[p].cmd)
    BY <1>0, <1>s, <1>6, <2>1 DEF ClearSlot, Registers, InCommand
  <2>6. Ended(p)' => Ended(p) \/ buffer'[p][1] # Junk \/ (hba[p].phase = "fetched" /\ hba[p].cmd # Identify)
    BY <1>0, <1>s, <1>6, <2>1 DEF ClearSlot, Registers, Ended, InCommand
  <2> QED
    BY <1>0, <2>2, <2>3, <2>4, <2>5, <2>6, AdapterPreserves
<1>7. CASE PostError(p)
  <2>1. PICK halts \in BOOLEAN :
          hba' = [hba EXCEPT ![p] = [hba[p] EXCEPT !.phase = IF halts THEN "halted" ELSE "idle",
                                       !.ci = halts, !.busy = FALSE, !.err = TRUE, !.tfes = TRUE]]
    <3>1. PICK halts \in BOOLEAN :
            hba' = [hba EXCEPT ![p].phase = IF halts THEN "halted" ELSE "idle", ![p].ci = halts,
                               ![p].busy = FALSE, ![p].err = TRUE, ![p].tfes = TRUE]
      BY <1>7 DEF PostError
    <3>2. hba' = [hba EXCEPT ![p] = [hba[p] EXCEPT !.phase = IF halts THEN "halted" ELSE "idle",
                                       !.ci = halts, !.busy = FALSE, !.err = TRUE, !.tfes = TRUE]]
      BY <1>0, <3>1
    <3> QED
      BY <3>2
  <2>2. /\ hba' \in [Ports -> Registers]
        /\ \A q \in Ports \ {p} : hba'[q] = hba[q]
        /\ hba'[p].st = hba[p].st /\ hba'[p].fre = hba[p].fre
    BY <1>0, <2>1 DEF Registers, InCommand
  <2>3. UNCHANGED <<pc, port, op, table, held, ready, registered, req, got>>
    BY <1>7 DEF PostError, Others, cpu, disks, call
  <2>4. buffer' = buffer
    BY <1>7 DEF PostError
  <2>5. /\ hba'[p].ci => hba[p].ci
        /\ hba'[p].phase \in InCommand => hba'[p].ci
        /\ hba'[p].err => hba[p].err \/ hba[p].ci
        /\ hba'[p].phase = "fetched" =>
             hba'[p].cmd = table[p] \/ (hba[p].phase = "fetched" /\ hba'[p].cmd = hba[p].cmd)
    BY <1>0, <1>s, <1>7, <2>1 DEF PostError, Registers, InCommand
  <2>6. Ended(p)' => Ended(p) \/ buffer'[p][1] # Junk \/ (hba[p].phase = "fetched" /\ hba[p].cmd # Identify)
    BY <1>0, <1>s, <1>7, <2>1 DEF PostError, Registers, Ended, InCommand
  <2> QED
    BY <1>0, <2>2, <2>3, <2>4, <2>5, <2>6, AdapterPreserves
<1> QED
  BY <1>1, <1>2, <1>3, <1>4, <1>5, <1>6, <1>7 DEF Adapter

-----------------------------------------------------------------------------
(* The CPU.  Most of its steps touch neither registers nor memory. *)

LEMMA QuietPreserves ==
  ASSUME IInv, TypeInv', CpuInv', UNCHANGED <<hba, memory, disks>>,
         \A p \in Ports : Fresh(p)' => Fresh(p),
         \A p \in LinkUp : TakenOver(p)' => TakenOver(p),
         op' = "read" \/ (op' = "identify" /\ op = "identify" /\ port' >= port),
         op' = "identify" /\ pc' \in Polling => pc \in Polling /\ port' = port
  PROVE  IInv'
<1> USE Constants DEF memory, disks
<1>1. SlotInv'
  <2> SUFFICES ASSUME NEW p \in Ports
               PROVE  /\ hba[p].phase \in InCommand => hba[p].ci
                      /\ hba[p].ci => {"table", "buffer"} \subseteq held[p]
                      /\ Fresh(p)' => ~ hba[p].ci /\ ~ hba[p].err
    BY DEF SlotInv
  <2> QED
    BY DEF IInv, SlotInv
<1>2. AnswerInv'
  BY DEF IInv, AnswerInv, Ended
<1>3. PublishInv'
  <2>1. Drives' = Drives
    BY DEF Drives
  <2>2. PublishedOnlyReady'
    BY <2>1 DEF IInv, PublishInv, PublishedOnlyReady
  <2>3. ASSUME NEW p \in ready \cup Drives
        PROVE  p \in LinkUp /\ (op' = "read" \/ p < port')
    <3>1. p \in LinkUp /\ p \in Ports /\ (op = "read" \/ p < port)
      BY DEF IInv, PublishInv
    <3>2. port \in Int /\ port' \in Int
      BY DEF IInv, TypeInv
    <3> QED
      BY <3>1, <3>2
  <2> QED
    BY <2>1, <2>2, <2>3 DEF PublishInv
<1>4. DmaMemoryIsHeld'
  <2> SUFFICES ASSUME NEW p \in LinkUp
               PROVE  /\ (hba[p].fre /\ TakenOver(p)') => {"clb", "fb"} \subseteq held[p]
                      /\ hba[p].ci => {"table", "buffer"} \subseteq held[p]
    BY DEF DmaMemoryIsHeld
  <2> QED
    BY DEF IInv, DmaMemoryIsHeld
<1> QED
  BY <1>1, <1>2, <1>3, <1>4 DEF IInv

LEMMA InitFailsInvariant ==
  ASSUME IInv, op = "identify", pc \in Bringup \cup Working, InitFails,
         UNCHANGED <<hba, memory, disks, req, got>>
  PROVE  IInv'
<1> USE Constants
<1>0. /\ pc' = "scan" /\ port' = port + 1 /\ op' = op
      /\ UNCHANGED <<table, buffer, held, ready, registered>>
  BY DEF InitFails, memory, disks
<1>1. port \in 1 .. PortCount
  BY DEF IInv, CpuInv
<1>2. TypeInv'
  BY <1>0, <1>1 DEF IInv, TypeInv
<1>3. CpuInv'
  BY <1>0 DEF IInv, CpuInv, Bringup, Polling, Working, Reading
<1>4. \A p \in Ports : Fresh(p)' => Fresh(p)
  BY <1>0, <1>1 DEF Fresh
<1>5. \A p \in LinkUp : TakenOver(p)' => TakenOver(p)
  <2> SUFFICES ASSUME NEW p \in LinkUp, TakenOver(p)' PROVE TakenOver(p)
    OBVIOUS
  <2>1. p < port \/ p = port
    BY <1>0, <1>1 DEF TakenOver
  <2> QED
    BY <1>1, <2>1 DEF TakenOver, Bringup, Polling, Working
<1>6. /\ op' = "read" \/ (op' = "identify" /\ op = "identify" /\ port' >= port)
      /\ op' = "identify" /\ pc' \in Polling => pc \in Polling /\ port' = port
  BY <1>0, <1>1 DEF Polling
<1> QED
  BY <1>0, <1>2, <1>3, <1>4, <1>5, <1>6, QuietPreserves DEF memory, disks

\* Any step within a request, or within a command, that only moves the CPU.
LEMMA MoveInvariant ==
  ASSUME IInv, UNCHANGED <<hba, memory, disks, port, op>>,
         pc \notin {"handoff", "scan", "panic"}, TypeInv', CpuInv',
         op = "read" \/ pc' = "panic" \/ pc' \in Bringup \cup Working,
         op = "identify" /\ pc \in Polling => pc' \in Polling \cup {"panic"},
         op = "identify" /\ pc' \in Polling => pc \in Polling,
         op = "identify" /\ pc' = "panic" => pc \in Polling
  PROVE  IInv'
<1>1. \A p \in Ports : Fresh(p)' => Fresh(p)
  BY DEF Fresh, Bringup, Polling, Working
<1>2. \A p \in LinkUp : TakenOver(p)' => TakenOver(p)
  BY DEF TakenOver
<1>3. /\ op' = "read" \/ (op' = "identify" /\ op = "identify" /\ port' >= port)
      /\ op' = "identify" /\ pc' \in Polling => pc \in Polling /\ port' = port
  BY DEF IInv, TypeInv
<1> QED
  BY <1>1, <1>2, <1>3, QuietPreserves

LEMMA FailsInvariant ==
  ASSUME IInv, NEW e, Fails(e), pc \in Working \cup Reading, UNCHANGED <<hba, memory, disks>>
  PROVE  IInv'
<1> USE Constants
<1>1. CASE op = "identify"
  <2>1. InitFails /\ UNCHANGED <<req, got>> /\ pc \in Bringup \cup Working
    BY <1>1 DEF Fails, call, IInv, CpuInv
  <2> QED
    BY <1>1, <2>1, InitFailsInvariant
<1>2. CASE op # "identify"
  <2>1. pc' = "idle" /\ op = "read" /\ UNCHANGED <<port, op, req, got>>
    BY <1>2 DEF Fails, IInv, TypeInv
  <2>2. TypeInv'
    BY <2>1 DEF IInv, TypeInv, memory, disks
  <2>3. CpuInv'
    BY <2>1 DEF IInv, CpuInv, Bringup, Polling, Working, Reading
  <2>4. pc \notin {"handoff", "scan", "panic"}
    BY DEF Polling, Working, Reading
  <2> QED
    BY <2>1, <2>2, <2>3, <2>4, MoveInvariant
<1> QED
  BY <1>1, <1>2

LEMMA HandoffDoneInvariant == ASSUME IInv, HandoffDone PROVE IInv'
<1> USE DEF HandoffDone, memory, disks, call
<1>1. TypeInv'
  BY DEF IInv, TypeInv
<1>2. CpuInv'
  BY DEF IInv, CpuInv, Bringup, Polling, Working, Reading
<1>3. \A p \in Ports : Fresh(p)' => Fresh(p)
  BY DEF Fresh, Polling
<1>4. \A p \in LinkUp : TakenOver(p)' => TakenOver(p)
  BY DEF TakenOver
<1>5. /\ op' = "read" \/ (op' = "identify" /\ op = "identify" /\ port' >= port)
      /\ op' = "identify" /\ pc' \in Polling => pc \in Polling /\ port' = port
  BY DEF IInv, TypeInv, Polling
<1> QED
  BY <1>1, <1>2, <1>3, <1>4, <1>5, QuietPreserves

LEMMA ScanDoneInvariant == ASSUME IInv, ScanDone PROVE IInv'
<1> USE Constants DEF ScanDone, memory, disks, call
<1>1. TypeInv'
  BY DEF IInv, TypeInv
<1>2. CpuInv'
  BY DEF IInv, CpuInv, Bringup, Polling, Working, Reading
<1>3. \A p \in Ports : Fresh(p)' => Fresh(p)
  BY DEF Fresh
<1>4. \A p \in LinkUp : TakenOver(p)' => TakenOver(p)
  BY DEF TakenOver, IInv, TypeInv
<1>5. op' = "read"
  OBVIOUS
<1> QED
  BY <1>1, <1>2, <1>3, <1>4, <1>5, QuietPreserves

\* The port is stopped before anything else: nothing it may write is left.
LEMMA ScanPortInvariant == ASSUME IInv, ScanPort PROVE IInv'
<1> USE Constants DEF memory, disks, call
<1>0. op = "identify" /\ pc = "scan" /\ port \in 1 .. PortCount
  BY DEF IInv, TypeInv, CpuInv, ScanPort, Working, Polling, Reading
<1>1. CASE port \notin LinkUp
  <2>0. pc' = pc /\ port' = port + 1 /\ op' = op /\ UNCHANGED <<hba, memory, disks, req, got>>
    BY <1>1 DEF ScanPort
  <2>1. TypeInv'
    BY <1>0, <2>0, SMTT(20) DEF IInv, TypeInv
  <2>2. CpuInv'
    BY <1>0, <2>0 DEF IInv, CpuInv, Bringup, Polling, Working, Reading
  <2>3. \A p \in Ports : Fresh(p)' => Fresh(p)
    BY <1>0, <2>0 DEF Fresh
  <2>4. \A p \in LinkUp : TakenOver(p)' => TakenOver(p)
    BY <1>0, <1>1, <2>0 DEF TakenOver
  <2>5. /\ op' = "read" \/ (op' = "identify" /\ op = "identify" /\ port' >= port)
        /\ op' = "identify" /\ pc' \in Polling => pc \in Polling /\ port' = port
    BY <1>0, <2>0 DEF Polling
  <2> QED
    BY <2>0, <2>1, <2>2, <2>3, <2>4, <2>5, QuietPreserves
<1>2. CASE port \in LinkUp
  <2>0. /\ pc' = "stop" /\ port' = port /\ op' = op
        /\ hba' = [hba EXCEPT ![port].st = FALSE, ![port].fre = FALSE]
        /\ UNCHANGED <<table, buffer, held, ready, registered, req, got>>
    BY <1>2 DEF ScanPort, Stopped
  <2>h. hba \in [Ports -> Registers]
    BY DEF IInv, TypeInv
  <2>p. /\ hba' \in [Ports -> Registers]
        /\ \A q \in Ports \ {port} : hba'[q] = hba[q]
        /\ ~ hba'[port].fre
        /\ hba'[port].ci = hba[port].ci /\ hba'[port].err = hba[port].err
        /\ hba'[port].phase = hba[port].phase
    <3>1. hba' = [hba EXCEPT ![port] = [hba[port] EXCEPT !.st = FALSE, !.fre = FALSE]]
      BY <1>0, <2>0, <2>h
    <3>2. hba[port] \in Registers
      BY <1>0, <2>h
    <3> QED
      BY <1>0, <2>h, <3>1, <3>2 DEF Registers
  <2>1. TypeInv'
    BY <1>0, <2>0, <2>p DEF IInv, TypeInv, Bringup
  <2>2. CpuInv'
    BY <1>0, <1>2, <2>0 DEF IInv, CpuInv, Bringup, Polling, Working, Reading
  <2>3. SlotInv'
    <3> SUFFICES ASSUME NEW q \in Ports
                 PROVE  /\ hba'[q].phase \in InCommand => hba'[q].ci
                        /\ hba'[q].ci => {"table", "buffer"} \subseteq held[q]
                        /\ Fresh(q)' => ~ hba'[q].ci /\ ~ hba'[q].err
      BY <2>0 DEF SlotInv
    <3>1. /\ hba'[q].ci = hba[q].ci /\ hba'[q].err = hba[q].err
          /\ hba'[q].phase = hba[q].phase
      BY <2>p
    <3>2. Fresh(q)' => Fresh(q)
      BY <1>0, <2>0 DEF Fresh, Polling
    <3> QED
      BY <3>1, <3>2 DEF IInv, SlotInv
  <2>4. AnswerInv'
    BY <2>0 DEF AnswerInv, Polling
  <2>5. PublishInv'
    <3>1. Drives' = Drives
      BY <2>0 DEF Drives
    <3> SUFFICES ASSUME NEW q \in ready \cup Drives
                 PROVE  /\ q \in LinkUp /\ (op = "read" \/ q < port)
                        /\ hba'[q].st /\ held[q] = {"clb", "fb", "table", "buffer"}
                        /\ buffer[q][1] # Junk
      BY <2>0, <3>1 DEF PublishInv, PublishedOnlyReady
    <3>2. q \in LinkUp /\ q < port
      BY <1>0 DEF IInv, PublishInv
    <3>3. hba'[q] = hba[q]
      BY <1>0, <2>p, <3>2
    <3> QED
      BY <3>2, <3>3 DEF IInv, PublishInv, PublishedOnlyReady
  <2>6. DmaMemoryIsHeld'
    <3> SUFFICES ASSUME NEW q \in LinkUp
                 PROVE  /\ (hba'[q].fre /\ TakenOver(q)') => {"clb", "fb"} \subseteq held[q]
                        /\ hba'[q].ci => {"table", "buffer"} \subseteq held[q]
      BY <2>0 DEF DmaMemoryIsHeld
    <3>1. CASE q = port
      BY <1>2, <2>p, <3>1 DEF IInv, DmaMemoryIsHeld
    <3>2. CASE q # port
      <4>1. TakenOver(q)' => TakenOver(q)
        BY <1>0, <2>0, <3>2 DEF TakenOver
      <4> QED
        BY <2>p, <3>2, <4>1 DEF IInv, DmaMemoryIsHeld
    <3> QED
      BY <3>1, <3>2
  <2> QED
    BY <2>1, <2>2, <2>3, <2>4, <2>5, <2>6 DEF IInv
<1> QED
  BY <1>1, <1>2

LEMMA StopEndsInvariant == ASSUME IInv, StopEnds PROVE IInv'
<1>0. pc = "stop" /\ op = "identify" /\ UNCHANGED <<hba, memory, disks, req, got>>
  BY DEF StopEnds, call, IInv, TypeInv, CpuInv, Working, Polling, Reading
<1>1. CASE pc' = "alloc" /\ UNCHANGED <<port, op>>
  <2>1. TypeInv'
    BY <1>0, <1>1 DEF IInv, TypeInv, memory, disks, Bringup
  <2>2. CpuInv'
    BY <1>0, <1>1 DEF IInv, CpuInv, memory, Bringup, Polling, Working, Reading
  <2> QED
    BY <1>0, <1>1, <2>1, <2>2, MoveInvariant DEF Bringup, Polling
<1>2. CASE InitFails
  BY <1>0, <1>2, InitFailsInvariant DEF Bringup
<1> QED
  BY <1>1, <1>2 DEF StopEnds

LEMMA SubmitWaitEndsInvariant == ASSUME IInv, SubmitWaitEnds PROVE IInv'
<1>0. pc = "submit_wait" /\ UNCHANGED <<hba, memory, disks>>
  BY DEF SubmitWaitEnds
<1>1. CASE pc' = "issue" /\ UNCHANGED <<port, op, call>>
  <2>1. TypeInv'
    BY <1>0, <1>1 DEF IInv, TypeInv, memory, disks, call, Working, Polling, Reading
  <2>2. CpuInv'
    BY <1>0, <1>1 DEF IInv, CpuInv, memory, call, Bringup, Polling, Working, Reading
  <2>3. op = "identify" => pc \in Working
    BY <1>0 DEF IInv, CpuInv, Working, Polling, Reading
  <2> QED
    BY <1>0, <1>1, <2>1, <2>2, <2>3, MoveInvariant DEF Bringup, Polling, Working, Reading, IInv, TypeInv
<1>2. CASE Fails("ETIMEDOUT")
  BY <1>0, <1>2, FailsInvariant DEF Working, Polling, Reading
<1> QED
  BY <1>1, <1>2 DEF SubmitWaitEnds

LEMMA PollErrorInvariant == ASSUME IInv, PollError PROVE IInv'
<1>0. pc = "poll_is" /\ UNCHANGED <<hba, memory, disks>>
  BY DEF PollError
<1>1. CASE pc' = "poll_time" /\ UNCHANGED <<port, op, call>>
  <2>1. TypeInv'
    BY <1>0, <1>1 DEF IInv, TypeInv, memory, disks, call, Working, Polling, Reading
  <2>2. CpuInv'
    BY <1>0, <1>1 DEF IInv, CpuInv, memory, call, Bringup, Polling, Working, Reading
  <2>3. op = "identify" => pc \in Working
    BY <1>0 DEF IInv, CpuInv, Working, Polling, Reading
  <2> QED
    BY <1>0, <1>1, <2>1, <2>2, <2>3, MoveInvariant DEF Bringup, Polling, Working, Reading, IInv, TypeInv
<1>2. CASE Fails("EIO")
  BY <1>0, <1>2, FailsInvariant DEF Working, Polling, Reading
<1> QED
  BY <1>1, <1>2 DEF PollError

LEMMA PollClockInvariant == ASSUME IInv, PollClock PROVE IInv'
<1>0. pc = "poll_time" /\ UNCHANGED <<hba, memory, disks>>
  BY DEF PollClock
<1>1. CASE pc' = "poll_ci" /\ UNCHANGED <<port, op, call>>
  <2>1. TypeInv'
    BY <1>0, <1>1 DEF IInv, TypeInv, memory, disks, call, Working, Polling, Reading
  <2>2. CpuInv'
    BY <1>0, <1>1 DEF IInv, CpuInv, memory, call, Bringup, Polling, Working, Reading
  <2>3. op = "identify" => pc \in Working
    BY <1>0 DEF IInv, CpuInv, Working, Polling, Reading
  <2> QED
    BY <1>0, <1>1, <2>1, <2>2, <2>3, MoveInvariant DEF Bringup, Polling, Working, Reading, IInv, TypeInv
<1>2. CASE Fails("ETIMEDOUT")
  BY <1>0, <1>2, FailsInvariant DEF Working, Polling, Reading
<1> QED
  BY <1>1, <1>2 DEF PollClock

LEMMA ReadWaitEndsInvariant == ASSUME IInv, ReadWaitEnds PROVE IInv'
<1>0. pc = "read_wait" /\ UNCHANGED <<hba, memory, disks>>
  BY DEF ReadWaitEnds
<1>1. CASE pc' = "setup" /\ UNCHANGED <<port, op, call>>
  <2>1. TypeInv'
    BY <1>0, <1>1 DEF IInv, TypeInv, memory, disks, call, Working, Polling, Reading
  <2>2. CpuInv'
    BY <1>0, <1>1 DEF IInv, CpuInv, memory, call, Bringup, Polling, Working, Reading
  <2>3. op = "read"
    BY <1>0 DEF IInv, TypeInv, CpuInv, Reading
  <2> QED
    BY <1>0, <1>1, <2>1, <2>2, <2>3, MoveInvariant DEF Bringup, Polling, Working, Reading, IInv, TypeInv
<1>2. CASE Fails("ETIMEDOUT")
  BY <1>0, <1>2, FailsInvariant DEF Working, Polling, Reading
<1> QED
  BY <1>1, <1>2 DEF ReadWaitEnds

LEMMA PollSlotInvariant == ASSUME IInv, PollSlot PROVE IInv'
<1>0. /\ pc = "poll_ci" /\ UNCHANGED <<port, op, hba, memory, disks, call>>
      /\ pc' = IF hba[port].ci THEN "poll_is" ELSE "check"
  BY DEF PollSlot
<1>1. TypeInv'
  BY <1>0 DEF IInv, TypeInv, memory, disks, call, Working, Polling, Reading
<1>2. CpuInv'
  BY <1>0 DEF IInv, CpuInv, memory, call, Bringup, Polling, Working, Reading
<1> QED
  BY <1>0, <1>1, <1>2, MoveInvariant DEF Bringup, Polling, Working, Reading, IInv, TypeInv

LEMMA CheckErrorInvariant == ASSUME IInv, CheckError PROVE IInv'
<1>1. pc \in Working \cup Reading /\ Fails("EIO") /\ UNCHANGED <<hba, memory, disks>>
  BY DEF CheckError, Working, Polling
<1> QED
  BY <1>1, FailsInvariant

-----------------------------------------------------------------------------
(* The steps that write registers or memory of the port being worked on. *)

LEMMA PortStepPreserves ==
  ASSUME IInv, TypeInv', CpuInv', port \in LinkUp, UNCHANGED <<port, op, buffer, disks>>,
         \A q \in Ports \ {port} : hba'[q] = hba[q] /\ held'[q] = held[q],
         hba'[port].phase = hba[port].phase, hba'[port].cmd = hba[port].cmd,
         hba'[port].err = hba[port].err, hba[port].ci => hba'[port].ci,
         hba'[port].fre => {"clb", "fb"} \subseteq held'[port],
         hba'[port].ci => {"table", "buffer"} \subseteq held'[port],
         port \in ready \cup Drives => hba'[port].st /\ held'[port] = held[port],
         Fresh(port)' => Fresh(port) /\ hba'[port].ci = hba[port].ci,
         pc \notin {"handoff", "scan"},
         op = "identify" /\ pc' \in Polling => Fresh(port) /\ hba'[port].ci
  PROVE  IInv'
<1> USE Constants DEF disks
<1>1. SlotInv'
  <2> SUFFICES ASSUME NEW q \in Ports
               PROVE  /\ hba'[q].phase \in InCommand => hba'[q].ci
                      /\ hba'[q].ci => {"table", "buffer"} \subseteq held'[q]
                      /\ Fresh(q)' => ~ hba'[q].ci /\ ~ hba'[q].err
    BY DEF SlotInv
  <2>1. /\ hba[q].phase \in InCommand => hba[q].ci
        /\ hba[q].ci => {"table", "buffer"} \subseteq held[q]
        /\ Fresh(q) => ~ hba[q].ci /\ ~ hba[q].err
    BY DEF IInv, SlotInv
  <2>2. CASE q = port
    BY <2>1, <2>2
  <2>3. CASE q # port
    <3>1. Fresh(q)' => Fresh(q)
      BY <2>3 DEF Fresh
    <3> QED
      BY <2>1, <2>3, <3>1
  <2> QED
    BY <2>2, <2>3
<1>2. AnswerInv'
  <2> SUFFICES ASSUME op = "identify", pc' \in Polling
               PROVE  /\ hba'[port].phase = "fetched" => hba'[port].cmd = Identify
                      /\ Ended(port)' => buffer[port][1] # Junk
    BY DEF AnswerInv
  <2>1. ~ hba[port].ci /\ hba[port].phase \notin InCommand
    BY DEF IInv, SlotInv
  <2> QED
    BY <2>1 DEF Ended, InCommand
<1>3. PublishInv'
  <2>1. Drives' = Drives
    BY DEF Drives
  <2> SUFFICES ASSUME NEW q \in ready \cup Drives
               PROVE  /\ q \in LinkUp /\ (op = "read" \/ q < port)
                      /\ hba'[q].st /\ held'[q] = {"clb", "fb", "table", "buffer"}
                      /\ buffer[q][1] # Junk
    BY <2>1 DEF PublishInv, PublishedOnlyReady
  <2>2. /\ q \in LinkUp /\ (op = "read" \/ q < port)
        /\ hba[q].st /\ held[q] = {"clb", "fb", "table", "buffer"}
        /\ buffer[q][1] # Junk
    BY DEF IInv, PublishInv, PublishedOnlyReady
  <2>3. CASE q = port
    BY <2>2, <2>3
  <2>4. CASE q # port
    BY <2>2, <2>4
  <2> QED
    BY <2>3, <2>4
<1>4. DmaMemoryIsHeld'
  <2> SUFFICES ASSUME NEW q \in LinkUp
               PROVE  /\ (hba'[q].fre /\ TakenOver(q)') => {"clb", "fb"} \subseteq held'[q]
                      /\ hba'[q].ci => {"table", "buffer"} \subseteq held'[q]
    BY DEF DmaMemoryIsHeld
  <2>1. CASE q = port
    BY <2>1
  <2>2. CASE q # port
    <3>1. TakenOver(q)' => TakenOver(q)
      BY <2>2 DEF TakenOver
    <3> QED
      BY <2>2, <3>1 DEF IInv, DmaMemoryIsHeld
  <2> QED
    BY <2>1, <2>2
<1> QED
  BY <1>1, <1>2, <1>3, <1>4 DEF IInv

\* What holds on the port the CPU works on.
LEMMA AtWork ==
  ASSUME IInv, pc \in Bringup \cup Working \cup Reading
  PROVE  /\ port \in LinkUp /\ port \in Ports /\ hba[port] \in Registers
         /\ hba \in [Ports -> Registers] /\ held \in [Ports -> SUBSET Pages]
         /\ hba[port].fre => {"clb", "fb"} \subseteq held[port]
         /\ hba[port].ci => {"table", "buffer"} \subseteq held[port]
         /\ port \in ready \cup Drives => hba[port].st /\ op = "read"
         /\ pc \in Bringup => op = "identify"
<1> USE Constants
<1>1. port \in LinkUp /\ hba \in [Ports -> Registers] /\ held \in [Ports -> SUBSET Pages]
  BY DEF IInv, TypeInv, CpuInv
<1>2. TakenOver(port)
  BY DEF TakenOver, Bringup, Working, Polling, Reading
<1>3. port \in ready \cup Drives => hba[port].st /\ op = "read"
  BY <1>1 DEF IInv, PublishInv, PublishedOnlyReady
<1>4. pc \in Bringup => op = "identify"
  BY DEF IInv, TypeInv, CpuInv, Bringup, Working, Polling, Reading
<1> QED
  BY <1>1, <1>2, <1>3, <1>4 DEF IInv, DmaMemoryIsHeld

LEMMA AllocBuffersInvariant == ASSUME IInv, AllocBuffers PROVE IInv'
<1> USE Constants
<1>0. /\ pc = "alloc" /\ pc \in Bringup
      /\ UNCHANGED <<table, buffer, disks, req, got>>
  BY DEF AllocBuffers, call, Bringup
<1>a. /\ op = "identify" /\ port \in LinkUp /\ port \in Ports /\ hba[port] \in Registers
      /\ hba \in [Ports -> Registers] /\ held \in [Ports -> SUBSET Pages]
      /\ port \notin ready \cup Drives
  BY <1>0, AtWork
<1>1. CASE InitFails /\ UNCHANGED <<held, hba>>
  BY <1>0, <1>1, <1>a, InitFailsInvariant DEF memory
<1>2. CASE /\ held' = [held EXCEPT ![port] = {"clb", "fb"}]
           /\ hba' = [hba EXCEPT ![port].fre = TRUE, ![port].tfes = FALSE]
           /\ pc' = "start" /\ UNCHANGED <<port, op>>
  <2>1. hba' = [hba EXCEPT ![port] = [hba[port] EXCEPT !.fre = TRUE, !.tfes = FALSE]]
    BY <1>2, <1>a
  <2>2. /\ hba' \in [Ports -> Registers]
        /\ \A q \in Ports \ {port} : hba'[q] = hba[q]
        /\ hba'[port].phase = hba[port].phase /\ hba'[port].cmd = hba[port].cmd
        /\ hba'[port].err = hba[port].err /\ hba'[port].ci = hba[port].ci
    BY <1>a, <2>1 DEF Registers
  <2>h. /\ \A q \in Ports \ {port} : held'[q] = held[q]
        /\ held'[port] = {"clb", "fb"} /\ held' \in [Ports -> SUBSET Pages]
    BY <1>2, <1>a DEF Pages
  <2>3. TypeInv'
    BY <1>0, <1>2, <2>2, <2>h DEF IInv, TypeInv, disks, Bringup
  <2>4. CpuInv'
    BY <1>0, <1>2, <1>a, <2>2, <2>h DEF CpuInv, Bringup, Polling, Working, Reading
  <2>5. Fresh(port)
    BY <1>0, <1>a DEF Fresh, Polling
  <2>6. ~ hba[port].ci
    BY <2>5, <1>a DEF IInv, SlotInv
  <2>7. pc \notin {"handoff", "scan"} /\ pc' \notin Polling
    BY <1>0, <1>2 DEF Polling
  <2> QED
    BY <1>0, <1>2, <1>a, <2>2, <2>h, <2>3, <2>4, <2>5, <2>6, <2>7, PortStepPreserves
<1> QED
  BY <1>1, <1>2 DEF AllocBuffers

LEMMA StartEndsInvariant == ASSUME IInv, StartEnds PROVE IInv'
<1> USE Constants
<1>0. /\ pc = "start" /\ pc \in Bringup
      /\ UNCHANGED <<memory, disks, req, got>>
  BY DEF StartEnds, call, Bringup
<1>a. /\ op = "identify" /\ port \in LinkUp /\ port \in Ports /\ hba[port] \in Registers
      /\ hba \in [Ports -> Registers] /\ port \notin ready \cup Drives
      /\ hba[port].fre => {"clb", "fb"} \subseteq held[port]
      /\ hba[port].ci => {"table", "buffer"} \subseteq held[port]
  BY <1>0, AtWork
<1>1. CASE InitFails /\ UNCHANGED hba
  BY <1>0, <1>1, <1>a, InitFailsInvariant
<1>2. CASE hba' = [hba EXCEPT ![port].st = TRUE] /\ pc' = "tables" /\ UNCHANGED <<port, op>>
  <2>1. hba' = [hba EXCEPT ![port] = [hba[port] EXCEPT !.st = TRUE]]
    BY <1>2, <1>a
  <2>2. /\ hba' \in [Ports -> Registers]
        /\ \A q \in Ports \ {port} : hba'[q] = hba[q]
        /\ hba'[port].phase = hba[port].phase /\ hba'[port].cmd = hba[port].cmd
        /\ hba'[port].err = hba[port].err /\ hba'[port].ci = hba[port].ci
        /\ hba'[port].fre = hba[port].fre /\ hba'[port].st
    BY <1>a, <2>1 DEF Registers
  <2>3. TypeInv'
    BY <1>0, <1>2, <2>2 DEF IInv, TypeInv, memory, disks, Bringup
  <2>4. CpuInv'
    BY <1>0, <1>2, <1>a, <2>2 DEF IInv, CpuInv, memory, Bringup, Polling, Working, Reading
  <2>5. Fresh(port)
    BY <1>0, <1>a DEF Fresh, Polling
  <2>7. pc \notin {"handoff", "scan"} /\ pc' \notin Polling
    BY <1>0, <1>2 DEF Polling
  <2>8. UNCHANGED <<buffer, held>>
    BY <1>0 DEF memory
  <2> QED
    BY <1>0, <1>2, <1>a, <2>2, <2>3, <2>4, <2>5, <2>7, <2>8, PortStepPreserves
<1> QED
  BY <1>1, <1>2 DEF StartEnds

LEMMA AllocTablesInvariant == ASSUME IInv, AllocTables PROVE IInv'
<1> USE Constants
<1>0. /\ pc = "tables" /\ pc \in Bringup
      /\ UNCHANGED <<hba, buffer, disks, req, got>>
  BY DEF AllocTables, call, Bringup
<1>a. /\ op = "identify" /\ port \in LinkUp /\ port \in Ports
      /\ hba \in [Ports -> Registers] /\ held \in [Ports -> SUBSET Pages]
      /\ port \notin ready \cup Drives
      /\ hba[port].fre => {"clb", "fb"} \subseteq held[port]
      /\ hba[port].ci => {"table", "buffer"} \subseteq held[port]
  BY <1>0, AtWork
<1>1. CASE InitFails /\ UNCHANGED <<held, table>>
  BY <1>0, <1>1, <1>a, InitFailsInvariant DEF memory
<1>2. CASE /\ held' = [held EXCEPT ![port] = @ \cup {"table", "buffer"}]
           /\ table' = [table EXCEPT ![port] = Identify]
           /\ pc' = "submit" /\ UNCHANGED <<port, op>>
  <2>1. {"clb", "fb"} \subseteq held[port] /\ hba[port].st
    BY <1>0, <1>a DEF IInv, CpuInv
  <2>2. /\ \A q \in Ports \ {port} : held'[q] = held[q]
        /\ held'[port] = Pages /\ held' \in [Ports -> SUBSET Pages]
    BY <1>2, <1>a, <2>1 DEF Pages
  <2>3. table'[port] = Identify /\ table' \in [Ports -> Commands]
    BY <1>2, <1>a DEF IInv, TypeInv
  <2>4. TypeInv'
    BY <1>0, <1>2, <2>2, <2>3 DEF IInv, TypeInv, disks, Working
  <2>5. CpuInv'
    BY <1>0, <1>2, <1>a, <2>1, <2>2, <2>3 DEF CpuInv, Bringup, Polling, Working, Reading
  <2>6. Fresh(port)
    BY <1>0, <1>a DEF Fresh, Polling
  <2>7. pc \notin {"handoff", "scan"} /\ pc' \notin Polling
    BY <1>0, <1>2 DEF Polling
  <2>8. {"clb", "fb"} \subseteq Pages /\ {"table", "buffer"} \subseteq Pages
    BY DEF Pages
  <2> QED
    BY <1>0, <1>2, <1>a, <2>2, <2>4, <2>5, <2>6, <2>7, <2>8, PortStepPreserves
<1> QED
  BY <1>1, <1>2 DEF AllocTables

LEMMA SubmitInvariant == ASSUME IInv, Submit PROVE IInv'
<1> USE Constants
<1>0. /\ pc = "submit" /\ pc \in Working /\ pc' = "submit_wait"
      /\ hba' = [hba EXCEPT ![port].tfes = FALSE]
      /\ UNCHANGED <<port, op, table, buffer, held, disks, req, got>>
  BY DEF Submit, memory, call, Working, Polling
<1>a. /\ port \in LinkUp /\ port \in Ports /\ hba[port] \in Registers
      /\ hba \in [Ports -> Registers]
      /\ hba[port].fre => {"clb", "fb"} \subseteq held[port]
      /\ hba[port].ci => {"table", "buffer"} \subseteq held[port]
      /\ port \in ready \cup Drives => hba[port].st /\ op = "read"
  BY <1>0, AtWork
<1>1. hba' = [hba EXCEPT ![port] = [hba[port] EXCEPT !.tfes = FALSE]]
  BY <1>0, <1>a
<1>2. /\ hba' \in [Ports -> Registers]
      /\ \A q \in Ports \ {port} : hba'[q] = hba[q]
      /\ hba'[port].phase = hba[port].phase /\ hba'[port].cmd = hba[port].cmd
      /\ hba'[port].err = hba[port].err /\ hba'[port].st = hba[port].st
      /\ hba'[port].fre = hba[port].fre /\ hba'[port].ci = hba[port].ci
  BY <1>a, <1>1 DEF Registers
<1>3. TypeInv'
  BY <1>0, <1>2 DEF IInv, TypeInv, disks, Working, Polling
<1>4. CpuInv'
  BY <1>0, <1>a, <1>2 DEF IInv, CpuInv, Bringup, Polling, Working, Reading
<1>5. op = "identify" => Fresh(port)
  BY <1>0, <1>a DEF Fresh, Polling
<1>6. op \in {"identify", "read"}
  BY DEF IInv, TypeInv
<1>7. Fresh(port)' => op = "identify"
  BY <1>0 DEF Fresh
<1>8. pc \notin {"handoff", "scan"} /\ pc' \notin Polling
  BY <1>0 DEF Polling
<1> QED
  BY <1>0, <1>a, <1>2, <1>3, <1>4, <1>5, <1>6, <1>7, <1>8, PortStepPreserves

LEMMA IssueInvariant == ASSUME IInv, Issue PROVE IInv'
<1> USE Constants
<1>0. /\ pc = "issue" /\ pc \in Working /\ pc' = "poll_ci"
      /\ hba' = [hba EXCEPT ![port].ci = TRUE]
      /\ UNCHANGED <<port, op, table, buffer, held, disks, req, got>>
  BY DEF Issue, memory, call, Working, Polling
<1>a. /\ port \in LinkUp /\ port \in Ports /\ hba[port] \in Registers
      /\ hba \in [Ports -> Registers]
      /\ hba[port].fre => {"clb", "fb"} \subseteq held[port]
      /\ hba[port].ci => {"table", "buffer"} \subseteq held[port]
      /\ port \in ready \cup Drives => hba[port].st /\ op = "read"
  BY <1>0, AtWork
<1>1. hba' = [hba EXCEPT ![port] = [hba[port] EXCEPT !.ci = TRUE]]
  BY <1>0, <1>a
<1>2. /\ hba' \in [Ports -> Registers]
      /\ \A q \in Ports \ {port} : hba'[q] = hba[q]
      /\ hba'[port].phase = hba[port].phase /\ hba'[port].cmd = hba[port].cmd
      /\ hba'[port].err = hba[port].err /\ hba'[port].st = hba[port].st
      /\ hba'[port].fre = hba[port].fre /\ hba'[port].ci
  BY <1>a, <1>1 DEF Registers
<1>3. TypeInv'
  BY <1>0, <1>2 DEF IInv, TypeInv, disks, Working, Polling
<1>4. CpuInv'
  BY <1>0, <1>a, <1>2 DEF IInv, CpuInv, Bringup, Polling, Working, Reading
<1>5. op = "identify" => Fresh(port)
  BY <1>0, <1>a DEF Fresh, Polling
<1>6. {"table", "buffer"} \subseteq held[port]
  BY <1>0 DEF IInv, CpuInv, Pages
<1>7. Fresh(port)' => op = "identify" /\ pc' \notin Polling
  BY <1>0, <1>a DEF Fresh
<1>8. pc \notin {"handoff", "scan"} /\ pc' \in Polling
  BY <1>0 DEF Polling
<1> QED
  BY <1>0, <1>a, <1>2, <1>3, <1>4, <1>5, <1>6, <1>7, <1>8, PortStepPreserves

LEMMA SetupChunkInvariant == ASSUME IInv, SetupChunk PROVE IInv'
<1> USE Constants
<1>0. /\ pc = "setup" /\ pc' = "submit" /\ UNCHANGED <<port, op, hba, buffer, held, disks, req, got>>
      /\ table' = [table EXCEPT ![port] = [lba |-> ChunkLba, count |-> EncodedCount(port, Chunk)]]
  BY DEF SetupChunk, call
<1>a. /\ port \in LinkUp /\ port \in Ports
      /\ hba[port].fre => {"clb", "fb"} \subseteq held[port]
      /\ hba[port].ci => {"table", "buffer"} \subseteq held[port]
      /\ port \in ready \cup Drives => hba[port].st
  BY <1>0, AtWork DEF Reading
<1>b. op = "read" /\ req.lba \in Nat /\ req.count \in Nat /\ Len(got) \in Nat
  BY <1>0 DEF IInv, TypeInv, CpuInv, Reading
<1>1. ChunkLba \in 0 .. U64
  <2>1. (req.lba + Len(got)) \in Int /\ U64 \in Int /\ U64 > 0
    BY <1>b
  <2> QED
    BY <2>1 DEF ChunkLba
<1>2. EncodedCount(port, Chunk) \in Int
  <2>1. Chunk \in Int
    BY <1>b DEF Chunk
  <2> QED
    BY <2>1 DEF EncodedCount
<1>3. TypeInv'
  BY <1>0, <1>1, <1>2 DEF IInv, TypeInv, disks, Working, Commands
<1>4. CpuInv'
  BY <1>0, <1>b DEF IInv, CpuInv, Bringup, Polling, Working, Reading
<1>5. ~ Fresh(port)'
  BY <1>0, <1>b DEF Fresh
<1>6. pc \notin {"handoff", "scan"}
  BY <1>0
<1> QED
  BY <1>0, <1>a, <1>b, <1>3, <1>4, <1>5, <1>6, PortStepPreserves

LEMMA ChunkEndsInvariant == ASSUME IInv, ChunkEnds PROVE IInv'
<1> USE Constants
<1>0. /\ pc = "check" /\ op = "read" /\ UNCHANGED <<port, op, hba, memory, disks, req>>
      /\ got' = got \o SubSeq(buffer[port], 1, Chunk)
      /\ IF Len(got) + Chunk = req.count THEN pc' = "idle" ELSE pc' = "setup"
  BY DEF ChunkEnds
<1>1. /\ port \in LinkUp /\ got \in Seq(Int) /\ req.count \in Nat /\ Len(got) < req.count
      /\ buffer[port] \in [1 .. MaxSectors -> Int]
  BY <1>0 DEF IInv, TypeInv, CpuInv, Working, Polling
<1>2. Chunk \in 1 .. MaxSectors /\ Len(got) + Chunk <= req.count
  BY <1>1 DEF Chunk
<1>3. SubSeq(buffer[port], 1, Chunk) \in Seq(Int) /\ Len(SubSeq(buffer[port], 1, Chunk)) = Chunk
  <2>1. \A i \in 1 .. Chunk : buffer[port][i] \in Int
    BY <1>1, <1>2
  <2>2. Chunk \in Int /\ 1 \in Int /\ 1 <= Chunk
    BY <1>2
  <2>3. /\ SubSeq(buffer[port], 1, Chunk) \in Seq(Int)
        /\ Len(SubSeq(buffer[port], 1, Chunk)) = IF 1 <= Chunk THEN Chunk - 1 + 1 ELSE 0
    BY ONLY <2>1, <2>2, SubSeqProperties
  <2> QED
    BY <2>2, <2>3
<1>4. got' \in Seq(Int) /\ Len(got') = Len(got) + Chunk
  BY <1>0, <1>1, <1>3, ConcatProperties
<1>5. TypeInv'
  BY <1>0, <1>4 DEF IInv, TypeInv, memory, disks, Reading
<1>6. CpuInv'
  <2>1. CASE pc' = "idle"
    BY <1>0, <2>1 DEF IInv, CpuInv, memory, Bringup, Polling, Working, Reading
  <2>2. CASE pc' = "setup"
    <3>1. Len(got') < req.count
      <4>1. Len(got) + Chunk # req.count
        BY <1>0, <2>2
      <4>2. Len(got) \in Nat /\ Chunk \in Nat
        BY <1>1, <1>2
      <4>3. Len(got) + Chunk < req.count
        <5>1. \A a, b, c \in Int : a + b <= c /\ a + b # c => a + b < c
          OBVIOUS
        <5>2. Len(got) \in Int /\ Chunk \in Int /\ req.count \in Int
          BY <1>1, <4>2
        <5> QED
          BY ONLY <1>2, <4>1, <5>1, <5>2, Zenon
      <4> QED
        BY <1>4, <4>3
    <3> QED
      BY <1>0, <3>1, <2>2 DEF IInv, CpuInv, memory, Bringup, Polling, Working, Reading
  <2> QED
    BY <1>0, <2>1, <2>2
<1> QED
  BY <1>0, <1>5, <1>6, MoveInvariant

\* What IDENTIFY publishes has a running port, all its pages and an answer.
LEMMA IdentifyEndsInvariant == ASSUME IInv, IdentifyEnds PROVE IInv'
<1> USE Constants
<1>0. /\ pc = "check" /\ ~ hba[port].err /\ op = "identify" /\ pc \in Working /\ pc \in Polling
      /\ Identified /\ UNCHANGED <<hba, memory, call>>
  BY DEF IdentifyEnds, Working, Polling
<1>1. CASE pc' = "panic" /\ UNCHANGED <<port, op, disks>>
  <2>1. TypeInv'
    BY <1>0, <1>1 DEF IInv, TypeInv, memory, disks, call
  <2>2. CpuInv'
    BY <1>0, <1>1 DEF IInv, CpuInv, memory, call, Bringup, Polling, Working, Reading
  <2> QED
    BY <1>0, <1>1, <2>1, <2>2, MoveInvariant DEF Polling
<1>2. CASE /\ registered' = IF port \in SataDrives THEN Append(registered, port) ELSE registered
           /\ ready' = ready \cup {port}
           /\ InitFails
  <2>0. pc' = "scan" /\ port' = port + 1 /\ op' = op /\ UNCHANGED <<hba, table, buffer, held, req, got>>
    BY <1>0, <1>2 DEF InitFails, memory, call
  <2>1. /\ port \in LinkUp /\ port \in 1 .. PortCount
        /\ hba[port].st /\ held[port] = {"clb", "fb", "table", "buffer"}
        /\ buffer[port][1] # Junk
    <3>1. port \in LinkUp /\ hba[port].st /\ held[port] = Pages /\ ~ hba[port].ci
      BY <1>0 DEF IInv, CpuInv
    <3>2. Ended(port)
      BY <1>0, <3>1 DEF Ended
    <3> QED
      BY <1>0, <3>1, <3>2 DEF IInv, AnswerInv, Pages
  <2>2. registered \in Seq(Ports)
    BY DEF IInv, TypeInv
  <2>3. registered' \in Seq(Ports) /\ Drives' \subseteq Drives \cup {port}
    <3>1. CASE registered' = registered
      BY <2>2, <3>1 DEF Drives
    <3>2. CASE registered' = Append(registered, port)
      BY <2>1, <2>2, <3>2 DEF Drives
    <3> QED
      BY <1>2, <3>1, <3>2
  <2>4. TypeInv'
    <3>1. ready' \subseteq Ports /\ port' \in 1 .. PortCount + 1
      BY <1>2, <2>0, <2>1, SMTT(20) DEF IInv, TypeInv
    <3> QED
      BY <2>0, <2>3, <3>1 DEF IInv, TypeInv
  <2>5. CpuInv'
    BY <1>0, <2>0 DEF IInv, CpuInv, Bringup, Polling, Working, Reading
  <2>6. SlotInv'
    <3> SUFFICES ASSUME NEW q \in Ports
                 PROVE  /\ hba[q].phase \in InCommand => hba[q].ci
                        /\ hba[q].ci => {"table", "buffer"} \subseteq held[q]
                        /\ Fresh(q)' => ~ hba[q].ci /\ ~ hba[q].err
      BY <2>0 DEF SlotInv
    <3>1. Fresh(q)' => Fresh(q)
      BY <2>0, <2>1, <1>0 DEF Fresh
    <3> QED
      BY <3>1 DEF IInv, SlotInv
  <2>7. AnswerInv'
    BY <2>0 DEF AnswerInv, Polling
  <2>8. PublishInv'
    <3> SUFFICES ASSUME NEW q \in ready \cup Drives \cup {port}
                 PROVE  /\ q \in LinkUp /\ (op = "read" \/ q < port + 1)
                        /\ hba[q].st /\ held[q] = {"clb", "fb", "table", "buffer"}
                        /\ buffer[q][1] # Junk
      BY <1>2, <2>0, <2>3 DEF PublishInv, PublishedOnlyReady
    <3>1. CASE q = port
      BY <2>1, <3>1
    <3>2. CASE q \in ready \cup Drives
      <4>1. /\ q \in LinkUp /\ (op = "read" \/ q < port)
            /\ hba[q].st /\ held[q] = {"clb", "fb", "table", "buffer"}
            /\ buffer[q][1] # Junk
        BY <3>2 DEF IInv, PublishInv, PublishedOnlyReady
      <4>2. q \in 1 .. PortCount
        BY <4>1
      <4>3. q < port => q < port + 1
        BY <2>1, <4>2
      <4> QED
        BY <4>1, <4>3
    <3> QED
      BY <3>1, <3>2
  <2>9. DmaMemoryIsHeld'
    <3> SUFFICES ASSUME NEW q \in LinkUp
                 PROVE  /\ (hba[q].fre /\ TakenOver(q)') => {"clb", "fb"} \subseteq held[q]
                        /\ hba[q].ci => {"table", "buffer"} \subseteq held[q]
      BY <2>0 DEF DmaMemoryIsHeld
    <3>1. TakenOver(q)' => TakenOver(q)
      BY <1>0, <2>0, <2>1 DEF TakenOver
    <3> QED
      BY <3>1 DEF IInv, DmaMemoryIsHeld
  <2> QED
    BY <2>4, <2>5, <2>6, <2>7, <2>8, <2>9 DEF IInv
<1> QED
  BY <1>0, <1>1, <1>2 DEF Identified

-----------------------------------------------------------------------------
(* Requests, the clock and the firmware. *)

LEMMA IdleInvariant ==
  ASSUME IInv, pc = "idle" \/ UNCHANGED <<req, got>>, UNCHANGED <<cpu, hba, memory, disks>>,
         req' \in [lba : 0 .. U64 - 1, count : 0 .. U64 - 1], got' \in Seq(Int)
  PROVE  IInv'
<1> USE DEF cpu
<1>1. TypeInv'
  BY DEF IInv, TypeInv, memory, disks
<1>2. CpuInv'
  <2>1. CASE pc = "idle"
    BY <2>1 DEF IInv, CpuInv, memory, Bringup, Polling, Working, Reading
  <2>2. CASE UNCHANGED <<req, got>>
    BY <2>2 DEF IInv, CpuInv, memory
  <2> QED
    BY <2>1, <2>2
<1>3. /\ \A p \in Ports : Fresh(p)' => Fresh(p)
      /\ \A p \in LinkUp : TakenOver(p)' => TakenOver(p)
  BY DEF Fresh, TakenOver
<1>4. /\ op' = "read" \/ (op' = "identify" /\ op = "identify" /\ port' >= port)
      /\ op' = "identify" /\ pc' \in Polling => pc \in Polling /\ port' = port
  BY DEF IInv, TypeInv
<1> QED
  BY <1>1, <1>2, <1>3, <1>4, QuietPreserves

LEMMA ReadCallInvariant ==
  ASSUME IInv, NEW p \in Drives, NEW lba \in Lbas, NEW count \in Counts, ReadCall(p, lba, count)
  PROVE  IInv'
<1> USE Constants
<1>0. /\ pc = "idle" /\ pc' = "read_wait" /\ port' = p /\ op' = op /\ UNCHANGED <<hba, memory, disks>>
      /\ req' = [lba |-> lba, count |-> count] /\ got' = <<>> /\ count # 0
  BY DEF ReadCall
<1>1. op = "read"
  BY <1>0 DEF IInv, TypeInv, CpuInv
<1>2. p \in LinkUp /\ p \in Ports /\ held[p] = Pages
  BY DEF IInv, PublishInv, PublishedOnlyReady, Pages
<1>3. req' \in [lba : 0 .. U64 - 1, count : 0 .. U64 - 1] /\ Len(got') < req'.count
  BY <1>0, AhciAssumption DEF AhciAssumption
<1>4. TypeInv'
  <2>1. got' \in Seq(Int) /\ port' \in 1 .. PortCount + 1
    BY <1>0, <1>2
  <2>2. pc' \in Reading
    BY <1>0 DEF Reading
  <2> QED
    BY <1>0, <1>3, <2>1, <2>2 DEF IInv, TypeInv, memory, disks
<1>5. CpuInv'
  BY <1>0, <1>1, <1>2, <1>3 DEF CpuInv, memory, Bringup, Polling, Working, Reading
<1>6. /\ \A q \in Ports : Fresh(q)' => Fresh(q)
      /\ \A q \in LinkUp : TakenOver(q)' => TakenOver(q)
  BY <1>0, <1>1 DEF Fresh, TakenOver
<1> QED
  BY <1>0, <1>1, <1>4, <1>5, <1>6, QuietPreserves

LEMMA CallInvariant == ASSUME IInv, Call PROVE IInv'
<1> USE Constants
<1>1. ASSUME NEW p \in Drives, NEW lba \in Lbas, NEW count \in Counts, ReadCall(p, lba, count)
      PROVE  IInv'
  BY <1>1, ReadCallInvariant
<1>2. ASSUME NEW lba \in Lbas, NEW count \in Counts, ReadRefused(lba, count)
      PROVE  IInv'
  <2>1. /\ pc = "idle" /\ UNCHANGED <<cpu, hba, memory, disks>>
        /\ req' = [lba |-> lba, count |-> count] /\ got' = <<>>
    BY <1>2 DEF ReadRefused
  <2>2. lba \in 0 .. U64 - 1 /\ count \in 0 .. U64 - 1
    BY AhciAssumption
  <2> QED
    BY <2>1, <2>2, IdleInvariant
<1>3. ASSUME pc = "idle", UNCHANGED <<cpu, hba, memory, disks>>, req' = NoCommand, got' = <<>>
      PROVE  IInv'
  BY <1>3, IdleInvariant DEF NoCommand
<1>4. ASSUME NEW lba \in Lbas, NEW count \in Counts, WriteCall(lba, count)
      PROVE  IInv'
  BY <1>3, <1>4 DEF WriteCall
<1>5. CASE FlushCall
  BY <1>3, <1>5 DEF FlushCall
<1> QED
  BY <1>1, <1>2, <1>4, <1>5 DEF Call

\* No register, page, device or request changes.
LEMMA StillInvariant == ASSUME IInv, UNCHANGED <<cpu, hba, memory, disks, call>> PROVE IInv'
<1>1. UNCHANGED <<req, got>>
  BY DEF call
<1>2. req' \in [lba : 0 .. U64 - 1, count : 0 .. U64 - 1] /\ got' \in Seq(Int)
  BY <1>1 DEF IInv, TypeInv
<1> QED
  BY <1>1, <1>2, IdleInvariant

LEMMA DriverInvariant == ASSUME IInv, Driver PROVE IInv'
BY HandoffDoneInvariant, ScanPortInvariant, ScanDoneInvariant, StopEndsInvariant,
   AllocBuffersInvariant, StartEndsInvariant, AllocTablesInvariant, SubmitInvariant,
   SubmitWaitEndsInvariant, IssueInvariant, PollSlotInvariant, PollErrorInvariant,
   PollClockInvariant, CheckErrorInvariant, IdentifyEndsInvariant, ReadWaitEndsInvariant,
   SetupChunkInvariant, ChunkEndsInvariant
DEF Driver

LEMMA NextInvariant == IInv /\ [Next]_vars => IInv'
<1> SUFFICES ASSUME IInv, [Next]_vars PROVE IInv'
  OBVIOUS
<1>1. CASE Driver
  BY <1>1, DriverInvariant
<1>2. CASE Call
  BY <1>2, CallInvariant
<1>3. CASE Tick
  BY <1>3, StillInvariant DEF Tick
<1>4. CASE FirmwareLetsGo
  BY <1>4, StillInvariant DEF FirmwareLetsGo
<1>5. ASSUME NEW p \in LinkUp, Adapter(p) PROVE IInv'
  BY <1>5, AdapterInvariant
<1>6. CASE UNCHANGED vars
  BY <1>6, StillInvariant DEF vars
<1> QED
  BY <1>1, <1>2, <1>3, <1>4, <1>5, <1>6 DEF Next

-----------------------------------------------------------------------------
\* The inductive invariant of the driver: what init_ahci and block_read rely
\* on at each point of their code, for any ports, drives and requests.
THEOREM AhciInvariant == Spec => []IInv
<1> QED
  BY InitInvariant, NextInvariant, PTL DEF Spec

\* ahci_port_stop, ahci_port_alloc_buffers and ahci_port_start never leave a
\* port receiving into, or fetching a command from, memory that is not held,
\* whichever step of the initialisation fails and whatever the adapter does.
THEOREM AhciHoldsDmaMemory == Spec => []DmaMemoryIsHeld
<1>1. IInv => DmaMemoryIsHeld
  BY DEF IInv
<1> QED
  BY <1>1, AhciInvariant, PTL

\* init_ahci registers, and puts on sata_list, only devices whose port runs,
\* whose memory is complete and whose drive has answered IDENTIFY.
THEOREM AhciPublishesOnlyReady == Spec => []PublishedOnlyReady
<1>1. IInv => PublishedOnlyReady
  BY DEF IInv, PublishInv
<1> QED
  BY <1>1, AhciInvariant, PTL

-----------------------------------------------------------------------------
(* What block_read delivers.  The drives announce LBA48, so that the sector *)
(* count of a command is the one asked for, and a capacity is a uint64_t.   *)

Serving == op = "read" /\ pc \in Working \cup Reading

\* The command of the chunk being served, and what it leaves in the buffer.
Asked  == [lba |-> ChunkLba, count |-> Chunk]
Filled == /\ ChunkLba + Chunk <= SectorCount
          /\ \A i \in 1 .. Chunk : buffer[port][i] = ChunkLba + i - 1

\* A port is driven, and a slot cleared, as the adapter's phases say.
DriveInv ==
  /\ Drives \subseteq SataDrives /\ (Serving => port \in SataDrives)
  /\ \A p \in Ports : ~ hba[p].ci => hba[p].phase = "idle"

\* The command in the slot is the one of this chunk.
CommandInv ==
  Serving /\ pc \in Working /\ ~ overlap =>
    /\ table[port] = Asked
    /\ pc \notin Polling => ~ hba[port].ci
    /\ hba[port].phase \in InCommand => hba[port].cmd = Asked
    /\ hba[port].phase \in {"moved", "posted"} => Filled
    /\ pc \in Polling /\ ~ hba[port].ci /\ ~ hba[port].err => Filled

\* The chunks so far are in the caller's buffer.
GotInv ==
  Serving /\ ~ overlap =>
    /\ \A i \in 1 .. Len(got) : got[i] = req.lba + i - 1
    /\ Len(got) > 0 => req.lba + Len(got) <= SectorCount

AnsweredInv == ReadsDeliver /\ (op = "identify" => result # "ok")

DInv == DriveInv /\ CommandInv /\ GotInv /\ AnsweredInv

LEMMA ServingFacts ==
  ASSUME IInv, DInv, Serving, SectorCount < U64
  PROVE  /\ port \in LinkUp /\ port \in Ports /\ req.lba \in 0 .. U64 - 1 /\ req.count \in Nat
         /\ got \in Seq(Int) /\ Len(got) \in Nat /\ Len(got) < req.count
         /\ Chunk \in 1 .. MaxSectors /\ ChunkLba \in 0 .. U64 - 1
         /\ Len(got) + Chunk <= req.count
         /\ ~ overlap => ChunkLba = req.lba + Len(got)
<1> USE Constants
<1>1. /\ port \in LinkUp /\ port \in Ports /\ req.lba \in 0 .. U64 - 1 /\ req.count \in 0 .. U64 - 1
      /\ got \in Seq(Int) /\ Len(got) < req.count
  BY DEF IInv, TypeInv, CpuInv, Serving
<1>2. Chunk \in 1 .. MaxSectors /\ Len(got) + Chunk <= req.count
  BY <1>1 DEF Chunk
<1>3. ASSUME NEW x \in Nat PROVE x % U64 \in 0 .. U64 - 1 /\ (x < U64 => x % U64 = x)
  OBVIOUS
<1>4. req.lba + Len(got) \in Nat
  BY <1>1
<1>5. ~ overlap => req.lba + Len(got) < U64
  <2>1. SectorCount \in Nat
    BY AhciAssumption
  <2>2. CASE Len(got) = 0
    BY <1>1, <2>2
  <2>3. CASE Len(got) # 0
    <3>1. ~ overlap => req.lba + Len(got) <= SectorCount
      BY <1>1, <2>3 DEF DInv, GotInv
    <3> QED
      BY <1>1, <2>1, <3>1
  <2> QED
    BY <2>2, <2>3
<1>6. ChunkLba \in 0 .. U64 - 1 /\ (~ overlap => ChunkLba = req.lba + Len(got))
  BY <1>3, <1>4, <1>5 DEF ChunkLba
<1> QED
  BY <1>1, <1>2, <1>6

-----------------------------------------------------------------------------
(* The adapter carries out the command in the slot, and no other. *)

LEMMA AdapterDelivers ==
  ASSUME IInv, DInv, SectorCount < U64, NEW p \in LinkUp,
         \A q \in Ports \ {p} : hba'[q] = hba[q] /\ buffer'[q] = buffer[q],
         ~ hba'[p].ci => hba'[p].phase = "idle",
         hba'[p].ci => hba[p].ci,
         hba'[p].phase \in InCommand =>
           \/ hba[p].ci /\ hba'[p].cmd = table[p]
           \/ hba[p].phase \in InCommand /\ hba'[p].cmd = hba[p].cmd,
         hba'[p].phase \in {"moved", "posted"} =>
           \/ hba[p].phase \in {"moved", "posted"} /\ buffer' = buffer
           \/ /\ hba[p].phase = "fetched"
              /\ hba[p].cmd = Identify \/ hba[p].cmd.lba + hba[p].cmd.count <= SectorCount
              /\ \A i \in 1 .. MaxSectors : i <= hba[p].cmd.count =>
                   buffer'[p][i] = hba[p].cmd.lba + i - 1,
         ~ hba'[p].ci /\ ~ hba'[p].err =>
           /\ buffer' = buffer
           /\ (~ hba[p].ci /\ ~ hba[p].err) \/ hba[p].phase \in {"moved", "posted"},
         UNCHANGED <<pc, port, op, table, registered, req, got, result, overlap>>
  PROVE  DInv'
<1> USE Constants
<1>0. Serving' = Serving /\ Drives' = Drives /\ Chunk' = Chunk /\ ChunkLba' = ChunkLba /\ Asked' = Asked
  BY DEF Serving, Drives, Chunk, ChunkLba, Asked
<1>1. DriveInv'
  <2>1. \A q \in Ports : ~ hba'[q].ci => hba'[q].phase = "idle"
    BY DEF DInv, DriveInv
  <2> QED
    BY <1>0, <2>1 DEF DInv, DriveInv
<1>2. CommandInv'
  <2> SUFFICES ASSUME Serving, pc \in Working, ~ overlap
               PROVE  /\ table[port] = Asked
                      /\ pc \notin Polling => ~ hba'[port].ci
                      /\ hba'[port].phase \in InCommand => hba'[port].cmd = Asked
                      /\ hba'[port].phase \in {"moved", "posted"} => Filled'
                      /\ pc \in Polling /\ ~ hba'[port].ci /\ ~ hba'[port].err => Filled'
    BY <1>0 DEF CommandInv
  <2>1. /\ table[port] = Asked
        /\ pc \notin Polling => ~ hba[port].ci
        /\ hba[port].phase \in InCommand => hba[port].cmd = Asked
        /\ hba[port].phase \in {"moved", "posted"} => Filled
        /\ pc \in Polling /\ ~ hba[port].ci /\ ~ hba[port].err => Filled
    BY DEF DInv, CommandInv
  <2>2. port \in Ports /\ Chunk \in 1 .. MaxSectors /\ ChunkLba \in 0 .. U64 - 1
    BY ServingFacts
  <2>3. buffer'[port] = buffer[port] /\ Filled => Filled'
    BY <1>0 DEF Filled
  <2>4. CASE port # p
    BY <2>1, <2>2, <2>3, <2>4
  <2>5. CASE port = p
    <3>1. hba'[port].phase \in InCommand => hba'[port].cmd = Asked
      BY <2>1, <2>5
    <3>2. hba'[port].phase \in {"moved", "posted"} => Filled'
      <4>1. SUFFICES ASSUME hba[p].phase = "fetched",
                            hba[p].cmd = Identify \/ hba[p].cmd.lba + hba[p].cmd.count <= SectorCount,
                            \A i \in 1 .. MaxSectors : i <= hba[p].cmd.count =>
                              buffer'[p][i] = hba[p].cmd.lba + i - 1
                     PROVE  Filled'
        BY <2>1, <2>3, <2>5
      <4>2. hba[p].cmd = Asked
        BY <2>1, <2>5, <4>1 DEF InCommand
      <4>3. Asked.lba = ChunkLba /\ Asked.count = Chunk
        BY DEF Asked
      <4>4. Asked # Identify
        BY <2>2, <4>3
      <4>5. ChunkLba + Chunk <= SectorCount
        BY <4>1, <4>2, <4>3, <4>4
      <4>6. \A i \in 1 .. Chunk : buffer'[port][i] = ChunkLba + i - 1
        <5> SUFFICES ASSUME NEW i \in 1 .. Chunk PROVE buffer'[port][i] = ChunkLba + i - 1
          OBVIOUS
        <5>1. i \in 1 .. MaxSectors /\ i <= Chunk
          BY <2>2
        <5> QED
          BY <2>5, <4>1, <4>2, <4>3, <5>1
      <4> QED
        BY <1>0, <4>5, <4>6 DEF Filled
    <3>3. pc \in Polling /\ ~ hba'[port].ci /\ ~ hba'[port].err => Filled'
      BY <2>1, <2>3, <2>5
    <3> QED
      BY <2>1, <2>5, <3>1, <3>2, <3>3
  <2> QED
    BY <2>4, <2>5
<1>3. GotInv'
  BY <1>0 DEF DInv, GotInv
<1>4. AnsweredInv'
  BY DEF DInv, AnsweredInv, ReadsDeliver
<1> QED
  BY <1>1, <1>2, <1>3, <1>4 DEF DInv

LEMMA AdapterStepDelivers ==
  ASSUME IInv, DInv, SectorCount < U64, NEW p \in LinkUp, Adapter(p)
  PROVE  DInv'
<1> USE Constants
<1>0. /\ p \in Ports /\ hba[p] \in Registers
      /\ hba \in [Ports -> Registers] /\ buffer \in [Ports -> [1 .. MaxSectors -> Int]]
      /\ hba[p].phase \in InCommand => hba[p].ci
      /\ ~ hba[p].ci => hba[p].phase = "idle"
  BY DEF IInv, TypeInv, SlotInv, DInv, DriveInv
<1>u. UNCHANGED <<pc, port, op, table, registered, req, got, result, overlap>>
  BY DEF Adapter, EngineFollows, DriveSpunUp, Fetch, Transfer, PostStatus, ClearSlot, PostError,
         Others, cpu, disks, call
<1>1. CASE EngineFollows(p)
  <2>1. hba' = [hba EXCEPT ![p] = [hba[p] EXCEPT !.engine = hba[p].st]] /\ buffer' = buffer
    BY <1>1 DEF EngineFollows
  <2>2. /\ hba'[p].ci = hba[p].ci /\ hba'[p].phase = hba[p].phase
        /\ hba'[p].cmd = hba[p].cmd /\ hba'[p].err = hba[p].err
        /\ \A q \in Ports \ {p} : hba'[q] = hba[q]
    BY <1>0, <2>1 DEF Registers
  <2> QED
    BY <1>0, <1>u, <2>1, <2>2, AdapterDelivers
<1>2. CASE DriveSpunUp(p)
  <2>1. hba' = [hba EXCEPT ![p] = [hba[p] EXCEPT !.busy = FALSE]] /\ buffer' = buffer
    BY <1>2 DEF DriveSpunUp
  <2>2. /\ hba'[p].ci = hba[p].ci /\ hba'[p].phase = hba[p].phase
        /\ hba'[p].cmd = hba[p].cmd /\ hba'[p].err = hba[p].err
        /\ \A q \in Ports \ {p} : hba'[q] = hba[q]
    BY <1>0, <2>1 DEF Registers
  <2> QED
    BY <1>0, <1>u, <2>1, <2>2, AdapterDelivers
<1>3. CASE Fetch(p)
  <2>1. /\ hba' = [hba EXCEPT ![p] = [hba[p] EXCEPT !.phase = "fetched", !.busy = TRUE, !.cmd = table[p]]]
        /\ buffer' = buffer /\ hba[p].ci
    BY <1>3 DEF Fetch
  <2>2. /\ hba'[p].ci = hba[p].ci /\ hba'[p].phase = "fetched"
        /\ hba'[p].cmd = table[p] /\ hba'[p].err = hba[p].err
        /\ \A q \in Ports \ {p} : hba'[q] = hba[q]
    BY <1>0, <2>1 DEF Registers
  <2> QED
    BY <1>0, <1>u, <2>1, <2>2, AdapterDelivers
<1>4. CASE Transfer(p)
  <2> DEFINE c == hba[p].cmd
             new == [i \in 1 .. MaxSectors |-> IF i <= c.count THEN c.lba + i - 1 ELSE buffer[p][i]]
  <2>1. /\ hba' = [hba EXCEPT ![p] = [hba[p] EXCEPT !.phase = "moved"]]
        /\ hba[p].phase = "fetched"
        /\ c = Identify \/ c.lba + c.count <= SectorCount
        /\ buffer' = [buffer EXCEPT ![p] = new]
    BY <1>0, <1>4 DEF Transfer
  <2>2. /\ hba'[p].ci = hba[p].ci /\ hba'[p].phase = "moved"
        /\ hba'[p].cmd = hba[p].cmd /\ hba'[p].err = hba[p].err
        /\ \A q \in Ports \ {p} : hba'[q] = hba[q]
    BY <1>0, <2>1 DEF Registers
  <2>3. /\ \A q \in Ports \ {p} : buffer'[q] = buffer[q]
        /\ \A i \in 1 .. MaxSectors : i <= c.count => buffer'[p][i] = c.lba + i - 1
    BY <1>0, <2>1
  <2>4. hba[p].ci /\ hba[p].phase \in InCommand
    BY <1>0, <2>1 DEF InCommand
  <2> QED
    BY <1>0, <1>u, <2>1, <2>2, <2>3, <2>4, AdapterDelivers
<1>5. CASE PostStatus(p)
  <2>1. /\ hba' = [hba EXCEPT ![p] = [hba[p] EXCEPT !.phase = "posted", !.busy = FALSE, !.err = FALSE]]
        /\ buffer' = buffer /\ hba[p].phase = "moved"
    BY <1>5 DEF PostStatus
  <2>2. /\ hba'[p].ci = hba[p].ci /\ hba'[p].phase = "posted"
        /\ hba'[p].cmd = hba[p].cmd
        /\ \A q \in Ports \ {p} : hba'[q] = hba[q]
    BY <1>0, <2>1 DEF Registers
  <2>3. hba[p].ci /\ hba[p].phase \in InCommand
    BY <1>0, <2>1 DEF InCommand
  <2> QED
    BY <1>0, <1>u, <2>1, <2>2, <2>3, AdapterDelivers
<1>6. CASE ClearSlot(p)
  <2>1. /\ hba' = [hba EXCEPT ![p] = [hba[p] EXCEPT !.phase = "idle", !.ci = FALSE]]
        /\ buffer' = buffer /\ hba[p].phase = "posted"
    BY <1>6 DEF ClearSlot
  <2>2. /\ ~ hba'[p].ci /\ hba'[p].phase = "idle"
        /\ \A q \in Ports \ {p} : hba'[q] = hba[q]
    BY <1>0, <2>1 DEF Registers
  <2>3. hba'[p].phase \notin InCommand /\ hba'[p].phase \notin {"moved", "posted"}
    BY <2>2 DEF InCommand
  <2> QED
    BY <1>0, <1>u, <2>1, <2>2, <2>3, AdapterDelivers
<1>7. CASE PostError(p)
  <2>0. PICK halts \in BOOLEAN :
          hba' = [hba EXCEPT ![p].phase = IF halts THEN "halted" ELSE "idle", ![p].ci = halts,
                             ![p].busy = FALSE, ![p].err = TRUE, ![p].tfes = TRUE]
    BY <1>7 DEF PostError
  <2>1. /\ hba' = [hba EXCEPT ![p] = [hba[p] EXCEPT !.phase = IF halts THEN "halted" ELSE "idle",
                                        !.ci = halts, !.busy = FALSE, !.err = TRUE, !.tfes = TRUE]]
        /\ buffer' = buffer /\ hba[p].phase \in InCommand
    <3>1. buffer' = buffer /\ hba[p].phase \in InCommand
      BY <1>7 DEF PostError, InCommand
    <3> QED
      BY <1>0, <2>0, <3>1
  <2>2. /\ hba'[p].ci = halts /\ hba'[p].phase = IF halts THEN "halted" ELSE "idle"
        /\ hba'[p].err
        /\ \A q \in Ports \ {p} : hba'[q] = hba[q]
    BY <1>0, <2>1 DEF Registers
  <2>3. hba'[p].phase \notin InCommand /\ hba'[p].phase \notin {"moved", "posted"}
    BY <2>2 DEF InCommand
  <2>4. hba[p].ci /\ (~ hba'[p].ci => hba'[p].phase = "idle")
    BY <1>0, <2>1, <2>2
  <2> QED
    BY <1>0, <1>u, <2>1, <2>2, <2>3, <2>4, AdapterDelivers
<1> QED
  BY <1>1, <1>2, <1>3, <1>4, <1>5, <1>6, <1>7 DEF Adapter

-----------------------------------------------------------------------------
(* Steps of the boot scan, and steps that change no register and no memory. *)

LEMMA BootDelivers ==
  ASSUME DInv, op = "identify", op' = "identify", result' = result, Drives' \subseteq SataDrives,
         \A q \in Ports : ~ hba'[q].ci => ~ hba[q].ci /\ hba'[q].phase = hba[q].phase
  PROVE  DInv'
<1>1. ~ Serving' /\ result # "ok"
  BY DEF Serving, DInv, AnsweredInv
<1>2. DriveInv'
  BY <1>1 DEF DInv, DriveInv
<1> QED
  BY <1>1, <1>2 DEF DInv, CommandInv, GotInv, AnsweredInv, ReadsDeliver

LEMMA MoveDelivers ==
  ASSUME DInv, UNCHANGED <<hba, table, buffer, registered, req, got, overlap>>,
         Serving' => Serving /\ port' = port,
         pc' \in Working => (pc \in Working /\ (pc' \in Polling <=> pc \in Polling)) \/ op' = "identify",
         pc' = "idle" /\ result' = "ok" => (pc = "idle" \/ op = "identify") /\ result = "ok",
         op' = "identify" => op = "identify" /\ result' = result
  PROVE  DInv'
<1>1. /\ Drives' = Drives
      /\ Chunk' = Chunk /\ ChunkLba' = ChunkLba /\ Asked' = Asked
      /\ port' = port => Filled' = Filled
  BY DEF Drives, Chunk, ChunkLba, Asked, Filled
<1>2. DriveInv'
  BY <1>1 DEF DInv, DriveInv
<1>3. CommandInv'
  <2> SUFFICES ASSUME Serving', pc' \in Working, ~ overlap
               PROVE  /\ table[port] = Asked
                      /\ pc' \notin Polling => ~ hba[port].ci
                      /\ hba[port].phase \in InCommand => hba[port].cmd = Asked
                      /\ hba[port].phase \in {"moved", "posted"} => Filled
                      /\ pc' \in Polling /\ ~ hba[port].ci /\ ~ hba[port].err => Filled
    BY <1>1 DEF CommandInv
  <2>1. Serving /\ pc \in Working /\ (pc' \in Polling <=> pc \in Polling)
    BY DEF Serving
  <2> QED
    BY <2>1 DEF DInv, CommandInv
<1>4. GotInv'
  BY DEF DInv, GotInv
<1>5. AnsweredInv'
  BY DEF DInv, AnsweredInv, ReadsDeliver
<1> QED
  BY <1>2, <1>3, <1>4, <1>5 DEF DInv

\* A request that fails, or a boot step that gives the port up.
LEMMA FailsDelivers ==
  ASSUME DInv, NEW e \in {"EIO", "ETIMEDOUT"}, Fails(e), op \in {"identify", "read"},
         UNCHANGED <<hba, table, buffer, registered, overlap>>
  PROVE  DInv'
<1>1. CASE op = "identify"
  <2>1. pc' = "scan" /\ op' = op /\ UNCHANGED <<req, got, result>>
    BY <1>1 DEF Fails, InitFails, call
  <2> QED
    BY <1>1, <2>1, MoveDelivers DEF Serving
<1>2. CASE op = "read"
  <2>1. pc' = "idle" /\ result' # "ok" /\ UNCHANGED <<port, op, req, got>>
    BY <1>2 DEF Fails
  <2>2. ~ Serving' /\ pc' \notin Working
    BY <2>1 DEF Serving, Working, Reading, Polling
  <2> QED
    BY <1>2, <2>1, <2>2, MoveDelivers
<1> QED
  BY <1>1, <1>2

LEMMA WaitDelivers ==
  ASSUME IInv, DInv,
         HandoffDone \/ ScanDone \/ StopEnds \/ SubmitWaitEnds \/ PollSlot \/ PollError
         \/ PollClock \/ CheckError \/ ReadWaitEnds
  PROVE  DInv'
<1>0. op \in {"identify", "read"}
  BY DEF IInv, TypeInv
<1>1. CASE HandoffDone
  BY <1>1, MoveDelivers DEF HandoffDone, memory, disks, call, Serving, Working, Reading, Polling
<1>2. CASE ScanDone
  <2>1. op = "identify" /\ result # "ok"
    BY <1>0, <1>2 DEF ScanDone, IInv, CpuInv, Working, Reading, Polling, DInv, AnsweredInv
  <2>2. pc' = "idle" /\ op' = "read" /\ UNCHANGED <<hba, table, buffer, registered, req, got, result, overlap>>
    BY <1>2 DEF ScanDone, memory, disks, call
  <2>3. ~ Serving' /\ pc' \notin Working
    BY <2>2 DEF Serving, Working, Reading, Polling
  <2> QED
    BY <2>1, <2>2, <2>3, MoveDelivers
<1>3. CASE StopEnds
  <2>1. op = "identify"
    BY <1>0, <1>3 DEF StopEnds, IInv, CpuInv, Working, Reading, Polling
  <2>2. op' = op /\ UNCHANGED <<hba, table, buffer, registered, req, got, result, overlap>>
    BY <1>3 DEF StopEnds, InitFails, memory, disks, call
  <2>3. pc' # "idle"
    BY <1>3 DEF StopEnds, InitFails
  <2> QED
    BY <2>1, <2>2, <2>3, MoveDelivers DEF Serving
<1>4. CASE SubmitWaitEnds
  <2>1. UNCHANGED <<hba, table, buffer, registered, overlap>> /\ pc = "submit_wait"
    BY <1>4 DEF SubmitWaitEnds, memory, disks
  <2>2. CASE pc' = "issue" /\ UNCHANGED <<port, op, call>>
    BY <2>1, <2>2, MoveDelivers DEF call, Serving, Working, Reading, Polling
  <2> QED
    BY <1>0, <1>4, <2>1, <2>2, FailsDelivers DEF SubmitWaitEnds
<1>5. CASE PollSlot
  BY <1>5, MoveDelivers DEF PollSlot, memory, disks, call, Serving, Working, Reading, Polling
<1>6. CASE PollError
  <2>1. UNCHANGED <<hba, table, buffer, registered, overlap>> /\ pc = "poll_is"
    BY <1>6 DEF PollError, memory, disks
  <2>2. CASE pc' = "poll_time" /\ UNCHANGED <<port, op, call>>
    BY <2>1, <2>2, MoveDelivers DEF call, Serving, Working, Reading, Polling
  <2> QED
    BY <1>0, <1>6, <2>1, <2>2, FailsDelivers DEF PollError
<1>7. CASE PollClock
  <2>1. UNCHANGED <<hba, table, buffer, registered, overlap>> /\ pc = "poll_time"
    BY <1>7 DEF PollClock, memory, disks
  <2>2. CASE pc' = "poll_ci" /\ UNCHANGED <<port, op, call>>
    BY <2>1, <2>2, MoveDelivers DEF call, Serving, Working, Reading, Polling
  <2> QED
    BY <1>0, <1>7, <2>1, <2>2, FailsDelivers DEF PollClock
<1>8. CASE CheckError
  BY <1>0, <1>8, FailsDelivers DEF CheckError, memory, disks
<1>9. CASE ReadWaitEnds
  <2>1. UNCHANGED <<hba, table, buffer, registered, overlap>> /\ pc = "read_wait"
    BY <1>9 DEF ReadWaitEnds, memory, disks
  <2>2. CASE pc' = "setup" /\ UNCHANGED <<port, op, call>>
    BY <2>1, <2>2, MoveDelivers DEF call, Serving, Working, Reading, Polling
  <2> QED
    BY <1>0, <1>9, <2>1, <2>2, FailsDelivers DEF ReadWaitEnds
<1> QED
  BY <1>1, <1>2, <1>3, <1>4, <1>5, <1>6, <1>7, <1>8, <1>9

LEMMA BringupDelivers ==
  ASSUME IInv, DInv, ScanPort \/ AllocBuffers \/ StartEnds \/ AllocTables \/ IdentifyEnds
  PROVE  DInv'
<1> USE Constants
<1>0. /\ hba \in [Ports -> Registers] /\ port \in 1 .. PortCount + 1 /\ op \in {"identify", "read"}
      /\ registered \in Seq(Ports)
      /\ Drives \subseteq SataDrives
  BY DEF IInv, TypeInv, DInv, DriveInv
<1>1. op = "identify" /\ op' = op
  <2>1. ScanPort \/ AllocBuffers \/ StartEnds \/ AllocTables => pc \in {"scan", "alloc", "start", "tables"}
    BY DEF ScanPort, AllocBuffers, StartEnds, AllocTables
  <2>2. IdentifyEnds => op = "identify"
    BY DEF IdentifyEnds
  <2>3. op = "identify"
    BY <1>0, <2>1, <2>2 DEF IInv, CpuInv, Working, Reading, Polling
  <2> QED
    BY <2>3 DEF ScanPort, AllocBuffers, StartEnds, AllocTables, IdentifyEnds, Identified, InitFails
<1>2. result' = result
  BY DEF ScanPort, AllocBuffers, StartEnds, AllocTables, IdentifyEnds, call
<1>3. Drives' \subseteq SataDrives
  <2>1. registered' = registered \/ (port \in SataDrives /\ registered' = Append(registered, port))
    BY DEF ScanPort, AllocBuffers, StartEnds, AllocTables, IdentifyEnds, Identified, disks
  <2>2. CASE registered' = registered
    BY <1>0, <2>2 DEF Drives
  <2>3. CASE port \in SataDrives /\ registered' = Append(registered, port)
    <3>1. port \in Ports
      BY <2>3, AhciAssumption
    <3>2. \A i \in DOMAIN registered' : registered'[i] = port \/ \E j \in DOMAIN registered : registered'[i] = registered[j]
      BY <1>0, <2>3, <3>1
    <3> QED
      BY <1>0, <2>3, <3>2 DEF Drives
  <2> QED
    BY <2>1, <2>2, <2>3
<1>4. ASSUME NEW q \in Ports PROVE hba'[q].ci = hba[q].ci /\ hba'[q].phase = hba[q].phase
  <2>0. hba[q] \in Registers
    BY <1>0
  <2>a. ASSUME port \in Ports, NEW st \in BOOLEAN, NEW fre \in BOOLEAN, NEW tfes \in BOOLEAN,
               hba' = [hba EXCEPT ![port] = [hba[port] EXCEPT !.st = st, !.fre = fre, !.tfes = tfes]]
        PROVE  hba'[q].ci = hba[q].ci /\ hba'[q].phase = hba[q].phase
    BY <1>0, <2>0, <2>a DEF Registers
  <2>1. CASE ScanPort
    <3>1. hba' = hba \/ hba' = Stopped(port)
      BY <2>1 DEF ScanPort
    <3>2. CASE hba' = Stopped(port)
      <4>1. port \in Ports /\ hba[port] \in Registers
        BY <1>0, <2>1, <3>2 DEF ScanPort
      <4>2. hba' = [hba EXCEPT ![port] = [hba[port] EXCEPT !.st = FALSE, !.fre = FALSE, !.tfes = hba[port].tfes]]
        BY <1>0, <3>2, <4>1 DEF Stopped, Registers
      <4>3. hba[port].tfes \in BOOLEAN
        BY <4>1 DEF Registers
      <4> QED
        BY <2>a, <4>1, <4>2, <4>3
    <3> QED
      BY <3>1, <3>2
  <2>2. CASE AllocBuffers
    <3>1. hba' = hba \/ hba' = [hba EXCEPT ![port].fre = TRUE, ![port].tfes = FALSE]
      BY <2>2 DEF AllocBuffers
    <3>2. CASE hba' = [hba EXCEPT ![port].fre = TRUE, ![port].tfes = FALSE]
      <4>1. port \in Ports /\ hba[port] \in Registers
        BY <1>0, <2>2, AtWork DEF AllocBuffers, Bringup
      <4>2. hba' = [hba EXCEPT ![port] = [hba[port] EXCEPT !.st = hba[port].st, !.fre = TRUE, !.tfes = FALSE]]
        BY <1>0, <3>2, <4>1 DEF Registers
      <4>3. hba[port].st \in BOOLEAN
        BY <4>1 DEF Registers
      <4> QED
        BY <2>a, <4>1, <4>2, <4>3
    <3> QED
      BY <3>1, <3>2
  <2>3. CASE StartEnds
    <3>1. hba' = hba \/ hba' = [hba EXCEPT ![port].st = TRUE]
      BY <2>3 DEF StartEnds
    <3>2. CASE hba' = [hba EXCEPT ![port].st = TRUE]
      <4>1. port \in Ports /\ hba[port] \in Registers
        BY <1>0, <2>3, AtWork DEF StartEnds, Bringup
      <4>2. hba' = [hba EXCEPT ![port] = [hba[port] EXCEPT !.st = TRUE, !.fre = hba[port].fre,
                                                          !.tfes = hba[port].tfes]]
        BY <1>0, <3>2, <4>1 DEF Registers
      <4>3. hba[port].fre \in BOOLEAN /\ hba[port].tfes \in BOOLEAN
        BY <4>1 DEF Registers
      <4> QED
        BY <2>a, <4>1, <4>2, <4>3
    <3> QED
      BY <3>1, <3>2
  <2>4. CASE AllocTables \/ IdentifyEnds
    BY <2>4 DEF AllocTables, IdentifyEnds
  <2> QED
    BY <2>1, <2>2, <2>3, <2>4
<1> QED
  BY <1>1, <1>2, <1>3, <1>4, BootDelivers

-----------------------------------------------------------------------------
(* The steps of block_read. *)

LEMMA SubmitDelivers == ASSUME IInv, DInv, Submit PROVE DInv'
<1>0. /\ pc = "submit" /\ pc' = "submit_wait"
      /\ hba' = [hba EXCEPT ![port].tfes = FALSE]
      /\ UNCHANGED <<port, op, table, buffer, registered, req, got, result, overlap>>
  BY DEF Submit, memory, disks, call
<1>1. hba \in [Ports -> Registers]
  BY DEF IInv, TypeInv
<1>2. ASSUME NEW q \in Ports
      PROVE  /\ hba'[q].ci = hba[q].ci /\ hba'[q].phase = hba[q].phase
             /\ hba'[q].cmd = hba[q].cmd /\ hba'[q].err = hba[q].err
  BY <1>0, <1>1 DEF Registers
<1>3. /\ Drives' = Drives /\ Chunk' = Chunk /\ ChunkLba' = ChunkLba
      /\ Asked' = Asked /\ Filled' = Filled
  BY <1>0 DEF Drives, Chunk, ChunkLba, Asked, Filled
<1>4. /\ Serving' = Serving /\ pc \in Working /\ pc' \in Working
      /\ pc \notin Polling /\ pc' \notin Polling
  BY <1>0 DEF Serving, Working, Reading, Polling
<1>5. DriveInv'
  BY <1>2, <1>3, <1>4, <1>0 DEF DInv, DriveInv
<1>6. CommandInv'
  <2> SUFFICES ASSUME Serving, ~ overlap
               PROVE  /\ table[port] = Asked
                      /\ ~ hba'[port].ci
                      /\ hba'[port].phase \in InCommand => hba'[port].cmd = Asked
                      /\ hba'[port].phase \in {"moved", "posted"} => Filled
    BY <1>0, <1>3, <1>4 DEF CommandInv
  <2>1. port \in Ports
    BY <1>4, AtWork
  <2> QED
    BY <1>2, <1>4, <2>1 DEF DInv, CommandInv
<1>7. GotInv' /\ AnsweredInv'
  BY <1>0, <1>4 DEF DInv, GotInv, AnsweredInv, ReadsDeliver
<1> QED
  BY <1>5, <1>6, <1>7 DEF DInv

LEMMA IssueDelivers == ASSUME IInv, DInv, Issue PROVE DInv'
<1>0. /\ pc = "issue" /\ pc' = "poll_ci"
      /\ hba' = [hba EXCEPT ![port].ci = TRUE]
      /\ UNCHANGED <<port, op, table, buffer, registered, req, got, result, overlap>>
  BY DEF Issue, memory, disks, call
<1>1. hba \in [Ports -> Registers]
  BY DEF IInv, TypeInv
<1>2. ASSUME NEW q \in Ports
      PROVE  /\ hba'[q].ci = (q = port \/ hba[q].ci) /\ hba'[q].phase = hba[q].phase
             /\ hba'[q].cmd = hba[q].cmd /\ hba'[q].err = hba[q].err
  BY <1>0, <1>1 DEF Registers
<1>3. /\ Drives' = Drives /\ Chunk' = Chunk /\ ChunkLba' = ChunkLba
      /\ Asked' = Asked /\ Filled' = Filled
  BY <1>0 DEF Drives, Chunk, ChunkLba, Asked, Filled
<1>4. /\ Serving' = Serving /\ pc \in Working /\ pc' \in Working
      /\ pc \notin Polling /\ pc' \in Polling
  BY <1>0 DEF Serving, Working, Reading, Polling
<1>5. DriveInv'
  BY <1>2, <1>3, <1>4, <1>0 DEF DInv, DriveInv
<1>6. CommandInv'
  <2> SUFFICES ASSUME Serving, ~ overlap
               PROVE  /\ table[port] = Asked
                      /\ hba'[port].phase \in InCommand => hba'[port].cmd = Asked
                      /\ hba'[port].phase \in {"moved", "posted"} => Filled
                      /\ hba'[port].ci
    BY <1>0, <1>3, <1>4 DEF CommandInv
  <2>1. port \in Ports
    BY <1>4, AtWork
  <2> QED
    BY <1>2, <1>4, <2>1 DEF DInv, CommandInv
<1>7. GotInv' /\ AnsweredInv'
  BY <1>0, <1>4 DEF DInv, GotInv, AnsweredInv, ReadsDeliver
<1> QED
  BY <1>5, <1>6, <1>7 DEF DInv

LEMMA SetupDelivers ==
  ASSUME IInv, DInv, SetupChunk, SataDrives \subseteq Lba48
  PROVE  DInv'
<1>0. /\ pc = "setup" /\ pc' = "submit"
      /\ table' = [table EXCEPT ![port] = [lba |-> ChunkLba, count |-> EncodedCount(port, Chunk)]]
      /\ overlap' = (overlap \/ hba[port].ci)
      /\ UNCHANGED <<port, op, hba, buffer, registered, req, got, result>>
  BY DEF SetupChunk, disks, call
<1>1. /\ Drives' = Drives /\ Chunk' = Chunk /\ ChunkLba' = ChunkLba
      /\ Asked' = Asked /\ Filled' = Filled
  BY <1>0 DEF Drives, Chunk, ChunkLba, Asked, Filled
<1>2. Serving' = Serving /\ pc \in Reading /\ pc' \in Working /\ pc' \notin Polling /\ op = "read"
  BY <1>0 DEF Serving, Working, Reading, Polling, IInv, TypeInv, CpuInv
<1>3. DriveInv'
  BY <1>0, <1>1, <1>2 DEF DInv, DriveInv
<1>4. CommandInv'
  <2> SUFFICES ASSUME Serving, ~ overlap'
               PROVE  /\ table'[port] = Asked
                      /\ ~ hba[port].ci
                      /\ hba[port].phase \notin InCommand
    BY <1>0, <1>1, <1>2 DEF CommandInv, InCommand
  <2>1. port \in Ports /\ port \in SataDrives
    BY <1>2, AtWork DEF DInv, DriveInv
  <2>2. ~ hba[port].ci /\ hba[port].phase = "idle"
    BY <1>0, <2>1 DEF DInv, DriveInv
  <2>3. EncodedCount(port, Chunk) = Chunk
    BY <2>1 DEF EncodedCount
  <2>4. table'[port] = Asked
    BY <1>0, <2>1, <2>3 DEF IInv, TypeInv, Asked
  <2> QED
    BY <2>2, <2>4 DEF InCommand
<1>5. GotInv' /\ AnsweredInv'
  BY <1>0, <1>2 DEF DInv, GotInv, AnsweredInv, ReadsDeliver
<1> QED
  BY <1>3, <1>4, <1>5 DEF DInv

LEMMA ChunkDelivers ==
  ASSUME IInv, DInv, ChunkEnds, SectorCount < U64
  PROVE  DInv'
<1> USE Constants
<1>0. /\ pc = "check" /\ op = "read" /\ ~ hba[port].err
      /\ got' = got \o SubSeq(buffer[port], 1, Chunk)
      /\ IF Len(got) + Chunk = req.count THEN pc' = "idle" ELSE pc' = "setup" /\ result' = result
      /\ UNCHANGED <<port, op, hba, table, buffer, registered, req, overlap>>
  BY DEF ChunkEnds, memory, disks
<1>1. Serving /\ pc \in Working /\ pc \in Polling /\ pc' \notin Working
  BY <1>0 DEF Serving, Working, Polling, Reading
<1>2. /\ port \in LinkUp /\ port \in Ports /\ req.lba \in 0 .. U64 - 1 /\ req.count \in Nat
      /\ got \in Seq(Int) /\ Len(got) \in Nat /\ Len(got) < req.count
      /\ Chunk \in 1 .. MaxSectors
      /\ Len(got) + Chunk <= req.count
      /\ ~ overlap => ChunkLba = req.lba + Len(got)
  BY <1>1, ServingFacts
<1>3. buffer[port] \in [1 .. MaxSectors -> Int] /\ ~ hba[port].ci
  BY <1>0, <1>2 DEF IInv, TypeInv, CpuInv
<1> DEFINE s == SubSeq(buffer[port], 1, Chunk)
<1>4. s \in Seq(Int) /\ Len(s) = Chunk /\ \A i \in 1 .. Chunk : s[i] = buffer[port][i]
  <2>1. \A i \in 1 .. Chunk : buffer[port][i] \in Int
    BY <1>2, <1>3
  <2>2. Chunk \in Int /\ 1 \in Int /\ 1 <= Chunk
    BY <1>2
  <2>3. /\ s \in Seq(Int)
        /\ Len(s) = IF 1 <= Chunk THEN Chunk - 1 + 1 ELSE 0
        /\ \A i \in 1 .. Chunk - 1 + 1 : s[i] = buffer[port][1 + i - 1]
    BY ONLY <2>1, <2>2, SubSeqProperties
  <2>4. Len(s) = Chunk /\ Chunk - 1 + 1 = Chunk
    BY <2>2, <2>3
  <2>5. ASSUME NEW i \in 1 .. Chunk PROVE s[i] = buffer[port][i]
    <3>1. 1 + i - 1 = i
      BY <2>2
    <3> QED
      BY <2>3, <2>4, <3>1
  <2> QED
    BY <2>3, <2>4, <2>5
<1> HIDE DEF s
<1>5. /\ got' \in Seq(Int) /\ Len(got') = Len(got) + Chunk
      /\ \A i \in 1 .. Len(got) : got'[i] = got[i]
      /\ \A i \in Len(got) + 1 .. Len(got) + Chunk : got'[i] = s[i - Len(got)]
  BY <1>0, <1>2, <1>4, ConcatProperties DEF s
<1>6. ASSUME ~ overlap
      PROVE  /\ \A i \in 1 .. Len(got') : got'[i] = req.lba + i - 1
             /\ req.lba + Len(got') <= SectorCount
  <2>1. Filled
    BY <1>0, <1>1, <1>3, <1>6 DEF DInv, CommandInv
  <2>2. ChunkLba = req.lba + Len(got) /\ \A i \in 1 .. Len(got) : got[i] = req.lba + i - 1
    BY <1>1, <1>2, <1>6 DEF DInv, GotInv
  <2>3. ASSUME NEW i \in 1 .. Len(got') PROVE got'[i] = req.lba + i - 1
    <3>1. CASE i <= Len(got)
      BY <1>2, <1>5, <2>2, <3>1
    <3>2. CASE i > Len(got)
      <4>1. i - Len(got) \in 1 .. Chunk
        BY <1>2, <1>5, <3>2
      <4>2. s[i - Len(got)] = ChunkLba + (i - Len(got)) - 1
        BY <1>4, <2>1, <4>1 DEF Filled
      <4>3. got'[i] = s[i - Len(got)]
        <5>1. i \in Len(got) + 1 .. Len(got) + Chunk
          BY <1>2, <1>5, <3>2
        <5> QED
          BY <1>5, <5>1
      <4>4. ChunkLba + (i - Len(got)) - 1 = req.lba + i - 1
        BY <1>2, <2>2
      <4> QED
        BY <4>2, <4>3, <4>4
    <3> QED
      BY <1>2, <1>5, <3>1, <3>2
  <2>4. req.lba + Len(got') <= SectorCount
    <3>1. ChunkLba + Chunk <= SectorCount
      BY <2>1 DEF Filled
    <3>2. req.lba + Len(got') = ChunkLba + Chunk
      BY <1>2, <1>5, <2>2, SMTT(20)
    <3> QED
      BY <3>1, <3>2
  <2> QED
    BY <2>3, <2>4
<1>7. DriveInv'
  <2>1. Drives' = Drives
    BY <1>0 DEF Drives
  <2> QED
    BY <1>0, <1>1, <2>1 DEF DInv, DriveInv
<1>8. CommandInv'
  BY <1>1 DEF CommandInv
<1>9. GotInv'
  <2>1. CASE overlap
    BY <1>0, <2>1 DEF GotInv
  <2>2. CASE ~ overlap
    BY <1>0, <1>6, <2>2 DEF GotInv
  <2> QED
    BY <2>1, <2>2
<1>10. AnsweredInv'
  <2>1. ASSUME pc' = "idle", ~ overlap PROVE got' = [i \in 1 .. req.count |-> req.lba + i - 1]
    <3>1. Len(got') = req.count
      BY <1>0, <1>5, <2>1
    <3>2. got' = [i \in 1 .. Len(got') |-> got'[i]]
      BY <1>5
    <3> QED
      BY <1>6, <2>1, <3>1, <3>2
  <2> QED
    BY <1>0, <2>1 DEF AnsweredInv, ReadsDeliver
<1> QED
  BY <1>7, <1>8, <1>9, <1>10 DEF DInv

-----------------------------------------------------------------------------
(* Calls. *)

LEMMA IdleDelivers ==
  ASSUME IInv, DInv, pc = "idle", UNCHANGED <<cpu, hba, memory, disks, overlap>>,
         got' = <<>>, result' = "ok" => req'.count = 0
  PROVE  DInv'
<1>1. op = "read" /\ op' = op /\ pc' = pc
  BY DEF IInv, TypeInv, CpuInv, cpu
<1>2. ~ Serving' /\ Drives' = Drives
  BY <1>1 DEF Serving, Working, Reading, Polling, Drives, disks
<1>3. <<>> = [i \in 1 .. 0 |-> req'.lba + i - 1]
  OBVIOUS
<1> QED
  BY <1>1, <1>2, <1>3 DEF DInv, DriveInv, CommandInv, GotInv, AnsweredInv, ReadsDeliver, cpu, disks

LEMMA ReadCallDelivers ==
  ASSUME IInv, DInv, NEW p \in Drives, NEW lba \in Lbas, NEW count \in Counts, ReadCall(p, lba, count)
  PROVE  DInv'
<1>1. /\ pc' = "read_wait" /\ port' = p /\ op' = op /\ UNCHANGED <<hba, registered>>
      /\ got' = <<>> /\ result' = "none"
  BY DEF ReadCall, disks
<1>2. Drives' = Drives /\ pc' \notin Working /\ p \in SataDrives
  BY <1>1 DEF Drives, Working, Polling, DInv, DriveInv
<1>3. Len(got') = 0 /\ 1 .. 0 = {}
  BY <1>1
<1> QED
  BY <1>1, <1>2, <1>3 DEF DInv, DriveInv, CommandInv, GotInv, AnsweredInv, ReadsDeliver

LEMMA CallDelivers == ASSUME IInv, DInv, Call PROVE DInv'
<1>1. ASSUME NEW p \in Drives, NEW lba \in Lbas, NEW count \in Counts, ReadCall(p, lba, count)
      PROVE  DInv'
  BY <1>1, ReadCallDelivers
<1>2. ASSUME NEW lba \in Lbas, NEW count \in Counts, ReadRefused(lba, count) PROVE DInv'
  BY <1>2, IdleDelivers DEF ReadRefused
<1>3. ASSUME NEW lba \in Lbas, NEW count \in Counts, WriteCall(lba, count) PROVE DInv'
  BY <1>3, IdleDelivers DEF WriteCall, NoCommand
<1>4. CASE FlushCall
  BY <1>4, IdleDelivers DEF FlushCall, NoCommand
<1> QED
  BY <1>1, <1>2, <1>3, <1>4 DEF Call

LEMMA StillDelivers == ASSUME DInv, UNCHANGED <<cpu, hba, memory, disks, call, overlap>> PROVE DInv'
BY MoveDelivers DEF cpu, memory, disks, call, Serving

LEMMA NextDelivers ==
  ASSUME SataDrives \subseteq Lba48, SectorCount < U64
  PROVE  IInv /\ DInv /\ [Next]_vars => DInv'
<1> SUFFICES ASSUME IInv, DInv, [Next]_vars PROVE DInv'
  OBVIOUS
<1>1. CASE Driver
  BY <1>1, WaitDelivers, BringupDelivers, SubmitDelivers, IssueDelivers, SetupDelivers, ChunkDelivers
  DEF Driver
<1>2. CASE Call
  BY <1>2, CallDelivers
<1>3. CASE Tick
  BY <1>3, StillDelivers DEF Tick
<1>4. CASE FirmwareLetsGo
  BY <1>4, StillDelivers DEF FirmwareLetsGo
<1>5. ASSUME NEW p \in LinkUp, Adapter(p) PROVE DInv'
  BY <1>5, AdapterStepDelivers
<1>6. CASE UNCHANGED vars
  BY <1>6, StillDelivers DEF vars
<1> QED
  BY <1>1, <1>2, <1>3, <1>4, <1>5, <1>6 DEF Next

LEMMA InitDelivers == Init => DInv
<1> SUFFICES ASSUME Init PROVE DInv
  OBVIOUS
<1>1. ~ Serving /\ Drives = {}
  BY DEF Init, Serving, Drives
<1>2. \A q \in Ports : hba[q].phase = "idle"
  BY DEF Init
<1> QED
  BY <1>1, <1>2 DEF Init, DInv, DriveInv, CommandInv, GotInv, AnsweredInv, ReadsDeliver

\* block_read answers 0 only with the sectors asked for in the caller's buffer,
\* in order, over any number of chunks, errors, time-outs and late answers of
\* the adapter, unless the request took over a slot another had abandoned.  The
\* drives announce LBA48 (the sector count of READ DMA has one byte for 1024
\* sectors) and report a capacity that is a uint64_t.
THEOREM AhciReadsDeliver ==
  ASSUME SataDrives \subseteq Lba48, SectorCount < U64
  PROVE  Spec => []ReadsDeliver
<1>1. IInv /\ DInv /\ [Next]_vars => DInv'
  BY NextDelivers
<1>2. DInv => ReadsDeliver
  BY DEF DInv, AnsweredInv
<1> QED
  BY <1>1, <1>2, AhciInvariant, InitDelivers, PTL DEF Spec

-----------------------------------------------------------------------------
(* The search for the controller (Pci).  The scan goes through the places in *)
(* the order of their addresses.                                             *)

Everywhere == Nat \X Nat \X (0 .. 31) \X (0 .. 7)
Entries    == Seq([start : Nat, end : Nat])

PciStages == {"acpi", "entry", "probe", "search", "enable", "map", "ghc", "done", "undefined"}

PciTypes ==
  /\ stage \in PciStages /\ xsdt \in Tables
  /\ Functions \subseteq Everywhere
  /\ mcfg = NoTable \/ mcfg \in Entries
  /\ at \in [entry : Nat \ {0}, bus : Nat, dev : 0 .. MaxDevices - 1, func : 0 .. MaxFunctions - 1]
  /\ devices \in Seq(Everywhere) /\ lost \subseteq Everywhere

\* Where the scan is lies within the entry it has come to.
InRange ==
  /\ stage = "acpi" => at.entry = 1 /\ mcfg = NoTable
  /\ stage \in {"entry", "probe"} => mcfg # NoTable
  /\ stage = "probe" => /\ at.entry \in DOMAIN mcfg
                        /\ at.bus \in mcfg[at.entry].start .. mcfg[at.entry].end

\* What is listed or was given up has been probed, so that the scan never meets it again.
ListedOnce ==
  /\ \A i, j \in DOMAIN devices : devices[i] = devices[j] => i = j
  /\ \A d \in Listed \cup lost : Probed(d)

ZeroListed == {d \in Listed : d[4] = 0} = {f \in Functions : f[4] = 0 /\ Probed(f)} \ lost

\* Only the function that was picked has its command register written, and it is a controller.
PickedInv ==
  /\ stage \in {"acpi", "entry", "probe", "search", "enable"} => command = [f \in Functions |-> {}]
  /\ stage \in {"enable", "map", "ghc", "undefined"} =>
       picked # None /\ picked \in Functions /\ class[picked] = "ahci" /\ Target = picked
  /\ stage = "done" => \/ command = [f \in Functions |-> {}]
                       \/ picked # None /\ command = [f \in Functions |-> IF f = Target THEN EnabledBits ELSE {}]
  /\ stage \in {"map", "ghc", "undefined"} => command = [f \in Functions |-> IF f = Target THEN EnabledBits ELSE {}]
  /\ stage = "ghc" => controller \in {picked, "garbage"}

PciInv == PciTypes /\ InRange /\ ListedOnce /\ ZeroListed /\ PickedInv

LEMMA PlaceParts ==
  ASSUME NEW p \in Everywhere
  PROVE  /\ p[1] \in Nat /\ p[2] \in Nat /\ p[3] \in 0 .. 31 /\ p[4] \in 0 .. 7
         /\ p = <<p[1], p[2], p[3], p[4]>>
BY DEF Everywhere

\* An address says which function it belongs to, and which block of it.
LEMMA AddressOf ==
  ASSUME NEW e, NEW b \in Nat, NEW d \in 0 .. 31, NEW k \in 0 .. 7
  PROVE  /\ FunctionAt(e, EcamReg(b, d, k)) = <<e, b, d, 0>>
         /\ BlockOf(EcamReg(b, d, k)) = k
<1> DEFINE n == EcamReg(b, d, k)
<1>1. n = 4096 * b + 128 * d + k
  BY DEF EcamReg, BusBlocks, DevBlocks, PageBlocks
<1>2. n \div 4096 = b /\ (n % 4096) \div 128 = d /\ (n % 128) \div 16 = 0 /\ n % 16 = k
  BY <1>1
<1> HIDE DEF n
<1> QED
  BY <1>2 DEF FunctionAt, BlockOf, BusBlocks, DevBlocks, PageBlocks, n

LEMMA NextModulo ==
  ASSUME NEW n \in 1 .. 32, NEW x \in 0 .. n - 1
  PROVE  (x + 1) % n = IF x + 1 < n THEN x + 1 ELSE 0
<1>1. CASE x + 1 < n
  BY <1>1
<1>2. CASE x + 1 = n
  BY <1>2
<1> QED
  BY <1>1, <1>2

\* The place the loops go on to.
NextFunc == IF at.func + 1 < MaxFunctions THEN at.func + 1 ELSE 0
NextDev  == IF NextFunc = 0 THEN (IF at.dev + 1 < MaxDevices THEN at.dev + 1 ELSE 0) ELSE at.dev
NextBus  == IF NextFunc = 0 /\ NextDev = 0 THEN at.bus + 1 ELSE at.bus

AtTypes ==
  /\ at.entry \in Nat \ {0} /\ at.bus \in Nat
  /\ at.dev \in 0 .. MaxDevices - 1 /\ at.func \in 0 .. MaxFunctions - 1

LEMMA Bounds ==
  /\ MaxDevices \in 1 .. 32 /\ MaxFunctions \in 1 .. 8
BY PciAssumption

LEMMA NextTypes ==
  ASSUME AtTypes
  PROVE  NextFunc \in 0 .. MaxFunctions - 1 /\ NextDev \in 0 .. MaxDevices - 1 /\ NextBus \in Nat
<1>1. NextFunc \in 0 .. MaxFunctions - 1
  BY Bounds DEF AtTypes, NextFunc
<1>2. NextDev \in 0 .. MaxDevices - 1
  BY Bounds DEF AtTypes, NextDev
<1>3. NextBus \in Nat
  BY DEF AtTypes, NextBus
<1> QED
  BY <1>1, <1>2, <1>3

\* No place lies between the two.
LEMMA NextPlace ==
  ASSUME AtTypes, NEW b \in Nat, NEW d \in 0 .. MaxDevices - 1, NEW k \in 0 .. MaxFunctions - 1
  PROVE  /\ EcamReg(b, d, k) < EcamReg(NextBus, NextDev, NextFunc) <=>
              (EcamReg(b, d, k) < Block \/ (b = at.bus /\ d = at.dev /\ k = at.func))
         /\ NextBus > at.bus => (b <= at.bus <=>
              (EcamReg(b, d, k) < Block \/ (b = at.bus /\ d = at.dev /\ k = at.func)))
<1>1. PICK D, F : D = MaxDevices /\ F = MaxFunctions
  OBVIOUS
<1>2. PICK bus, dev, func : bus = at.bus /\ dev = at.dev /\ func = at.func
  OBVIOUS
<1>3. PICK bus2, dev2, func2 : bus2 = NextBus /\ dev2 = NextDev /\ func2 = NextFunc
  OBVIOUS
<1>4. /\ D \in 1 .. 32 /\ F \in 1 .. 8 /\ bus \in Nat /\ dev \in 0 .. D - 1 /\ func \in 0 .. F - 1
      /\ d \in 0 .. D - 1 /\ k \in 0 .. F - 1
  BY <1>1, <1>2, Bounds DEF AtTypes
<1>5. func2 = IF func + 1 < F THEN func + 1 ELSE 0
  BY <1>1, <1>2, <1>3 DEF NextFunc
<1>6. dev2 = IF func2 = 0 THEN (IF dev + 1 < D THEN dev + 1 ELSE 0) ELSE dev
  BY <1>1, <1>2, <1>3 DEF NextDev
<1>7. bus2 = IF func2 = 0 /\ dev2 = 0 THEN bus + 1 ELSE bus
  BY <1>2, <1>3 DEF NextBus
<1>8. /\ EcamReg(b, d, k) = 4096 * b + 128 * d + k
      /\ Block = 4096 * bus + 128 * dev + func
      /\ EcamReg(NextBus, NextDev, NextFunc) = 4096 * bus2 + 128 * dev2 + func2
  BY <1>2, <1>3, <1>4, <1>5, <1>6, <1>7 DEF Block, EcamReg, BusBlocks, DevBlocks, PageBlocks
<1>9. /\ 4096 * b + 128 * d + k < 4096 * bus2 + 128 * dev2 + func2 <=>
              (4096 * b + 128 * d + k < 4096 * bus + 128 * dev + func \/ (b = bus /\ d = dev /\ k = func))
      /\ bus2 > bus => (b <= bus <=>
              (4096 * b + 128 * d + k < 4096 * bus + 128 * dev + func \/ (b = bus /\ d = dev /\ k = func)))
  <2>1. CASE func + 1 < F
    BY <1>4, <1>5, <1>6, <1>7, <2>1
  <2>2. CASE func + 1 = F /\ dev + 1 < D
    BY <1>4, <1>5, <1>6, <1>7, <2>2
  <2>3. CASE func + 1 = F /\ dev + 1 = D
    BY <1>4, <1>5, <1>6, <1>7, <2>3
  <2> QED
    BY <1>4, <2>1, <2>2, <2>3
<1> QED
  BY <1>2, <1>3, <1>8, <1>9

LEMMA OnwardIs ==
  ASSUME AtTypes, Onward
  PROVE  \/ /\ NextBus <= LastBus(at.entry)
            /\ at' = [at EXCEPT !.bus = NextBus, !.dev = NextDev, !.func = NextFunc]
            /\ stage' = stage
         \/ /\ ~ NextBus <= LastBus(at.entry)
            /\ at' = [at EXCEPT !.entry = @ + 1]
            /\ stage' = "entry"
<1>1. PICK x, y, D, F : x = at.func /\ y = at.dev /\ D = MaxDevices /\ F = MaxFunctions
  OBVIOUS
<1>2. D \in 1 .. 32 /\ F \in 1 .. 32 /\ x \in 0 .. F - 1 /\ y \in 0 .. D - 1
  BY <1>1, Bounds DEF AtTypes
<1>3. (x + 1) % F = IF x + 1 < F THEN x + 1 ELSE 0
  BY <1>2, NextModulo
<1>4. (y + 1) % D = IF y + 1 < D THEN y + 1 ELSE 0
  BY <1>2, NextModulo
<1>5. (at.func + 1) % MaxFunctions = NextFunc
  BY <1>1, <1>3 DEF NextFunc
<1>6. (at.dev + 1) % MaxDevices = IF at.dev + 1 < MaxDevices THEN at.dev + 1 ELSE 0
  BY <1>1, <1>4
<1>7. (IF NextFunc = 0 THEN (at.dev + 1) % MaxDevices ELSE at.dev) = NextDev
  BY <1>6 DEF NextDev
<1>8. (IF NextFunc = 0 /\ NextDev = 0 THEN at.bus + 1 ELSE at.bus) = NextBus
  BY DEF NextBus
<1>9. IF NextBus <= LastBus(at.entry)
        THEN /\ at' = [at EXCEPT !.bus = NextBus, !.dev = NextDev, !.func = NextFunc]
             /\ UNCHANGED stage
        ELSE /\ at' = [at EXCEPT !.entry = @ + 1]
             /\ stage' = "entry"
  BY <1>5, <1>7, <1>8, Zenon DEF Onward
<1> QED
  BY <1>9

\* One turn of the loops: the place is now behind the scan, and nothing else is.
LEMMA OnwardDoes ==
  ASSUME PciTypes, InRange, stage = "probe", Onward, UNCHANGED <<machine, mcfg>>
  PROVE  /\ \A f \in Everywhere : Probed(f)' <=> Probed(f) \/ f = Place
         /\ Place \in Everywhere /\ ~ Probed(Place)
         /\ at' \in [entry : Nat \ {0}, bus : Nat, dev : 0 .. MaxDevices - 1, func : 0 .. MaxFunctions - 1]
         /\ stage' \in {"entry", "probe"} /\ InRange'
<1>1. AtTypes
  BY DEF PciTypes, AtTypes
<1>2. mcfg # NoTable /\ mcfg \in Entries /\ at.entry \in DOMAIN mcfg
  BY DEF PciTypes, InRange
<1>3. \A e \in DOMAIN mcfg : e \in Nat /\ mcfg[e].start \in Nat /\ mcfg[e].end \in Nat
  <2>1. ASSUME NEW e \in DOMAIN mcfg PROVE e \in Nat /\ mcfg[e] \in [start : Nat, end : Nat]
    <3>1. mcfg \in Seq([start : Nat, end : Nat])
      BY <1>2 DEF Entries
    <3>2. e \in 1 .. Len(mcfg)
      BY <3>1
    <3>3. mcfg \in [1 .. Len(mcfg) -> [start : Nat, end : Nat]]
      BY <3>1, LenProperties, Zenon
    <3> QED
      BY <3>2, <3>3
  <2> QED
    BY <2>1
<1>4. at.bus \in mcfg[at.entry].start .. mcfg[at.entry].end
  BY DEF InRange
<1>5. NextFunc \in 0 .. MaxFunctions - 1 /\ NextDev \in 0 .. MaxDevices - 1 /\ NextBus \in Nat
  BY <1>1, NextTypes
<1>6. at \in [entry : Nat \ {0}, bus : Nat, dev : 0 .. MaxDevices - 1, func : 0 .. MaxFunctions - 1]
  BY DEF PciTypes
<1>7. \/ /\ stage' = "probe" /\ NextBus <= LastBus(at.entry)
         /\ at'.entry = at.entry /\ at'.bus = NextBus /\ at'.dev = NextDev /\ at'.func = NextFunc
         /\ at' \in [entry : Nat \ {0}, bus : Nat, dev : 0 .. MaxDevices - 1, func : 0 .. MaxFunctions - 1]
      \/ /\ stage' = "entry" /\ ~ NextBus <= LastBus(at.entry)
         /\ at'.entry = at.entry + 1
         /\ at' \in [entry : Nat \ {0}, bus : Nat, dev : 0 .. MaxDevices - 1, func : 0 .. MaxFunctions - 1]
  <2>1. CASE /\ NextBus <= LastBus(at.entry)
             /\ at' = [at EXCEPT !.bus = NextBus, !.dev = NextDev, !.func = NextFunc]
             /\ stage' = stage
    BY <1>5, <1>6, <2>1
  <2>2. CASE /\ ~ NextBus <= LastBus(at.entry)
             /\ at' = [at EXCEPT !.entry = @ + 1]
             /\ stage' = "entry"
    BY <1>6, <2>2
  <2> QED
    BY <1>1, <2>1, <2>2, OnwardIs
<1>8. Place \in Everywhere
  BY <1>1, Bounds DEF Place, Everywhere, AtTypes
<1>9. ~ Probed(Place)
  BY <1>1, <1>2 DEF Probed, Place, BaseOf, Block, EcamReg, BusBlocks, DevBlocks, PageBlocks, AtTypes
<1>10. mcfg' = mcfg
  OBVIOUS
<1>11. NextBus >= at.bus /\ at.bus \in Nat /\ at.entry \in Nat /\ mcfg[at.entry].start \in Nat /\ mcfg[at.entry].end \in Nat
  BY <1>1, <1>2, <1>3 DEF NextBus, AtTypes
<1>12. InRange'
  BY <1>2, <1>4, <1>5, <1>7, <1>10, <1>11 DEF InRange, LastBus
<1>13. ASSUME NEW f \in Everywhere PROVE Probed(f)' <=> Probed(f) \/ f = Place
  <2>1. /\ f[1] \in Nat /\ f[2] \in Nat /\ f[3] \in 0 .. 31 /\ f[4] \in 0 .. 7
        /\ f = <<f[1], f[2], f[3], f[4]>>
    BY PlaceParts
  <2>2. f = Place <=> f[1] = at.entry /\ f[2] = at.bus /\ f[3] = at.dev /\ f[4] = at.func
    BY <2>1 DEF Place
  <2> DEFINE In == /\ f[1] \in DOMAIN mcfg /\ f[2] \in mcfg[f[1]].start .. mcfg[f[1]].end
                   /\ f[3] < MaxDevices /\ f[4] < MaxFunctions
             Here  == f[2] = at.bus /\ f[3] = at.dev /\ f[4] = at.func
             Below == EcamReg(f[2], f[3], f[4]) < Block
  <2>3. Probed(f) <=> In /\ (f[1] < at.entry \/ (f[1] = at.entry /\ Below))
    BY <1>2 DEF Probed, BaseOf
  <2>4. ASSUME f = Place PROVE In
    <3>1. f[1] = at.entry /\ f[2] = at.bus /\ f[3] = at.dev /\ f[4] = at.func
      BY <2>2, <2>4
    <3>2. f[1] \in DOMAIN mcfg /\ f[2] \in mcfg[f[1]].start .. mcfg[f[1]].end
      BY <1>2, <1>4, <3>1, Zenon
    <3>3. f[3] < MaxDevices /\ f[4] < MaxFunctions
      BY <1>1, <3>1, Bounds DEF AtTypes
    <3> QED
      BY <3>2, <3>3
  <2>5. In => f[2] \in Nat /\ f[3] \in 0 .. MaxDevices - 1 /\ f[4] \in 0 .. MaxFunctions - 1
    BY <2>1, Bounds
  <2>6. CASE stage' = "probe"
    <3>1. /\ at'.entry = at.entry /\ at'.bus = NextBus /\ at'.dev = NextDev /\ at'.func = NextFunc
      BY <1>7, <2>6
    <3>2. Block' = EcamReg(NextBus, NextDev, NextFunc)
      BY <3>1 DEF Block
    <3>3. Probed(f)' <=> In /\ (f[1] < at.entry \/ (f[1] = at.entry /\ EcamReg(f[2], f[3], f[4]) < EcamReg(NextBus, NextDev, NextFunc)))
      BY <1>2, <1>10, <2>6, <3>1, <3>2 DEF Probed, BaseOf
    <3>4. In => (EcamReg(f[2], f[3], f[4]) < EcamReg(NextBus, NextDev, NextFunc) <=> Below \/ Here)
      BY <1>1, <2>5, NextPlace
    <3>5. f = Place <=> f[1] = at.entry /\ Here
      BY <2>2
    <3> HIDE DEF In, Below, Here
    <3> QED
      BY <2>3, <2>4, <3>3, <3>4, <3>5
  <2>7. CASE stage' = "entry"
    <3>1. at'.entry = at.entry + 1 /\ ~ NextBus <= LastBus(at.entry)
      BY <1>7, <2>7
    <3>2. Probed(f)' <=> In /\ f[1] < at.entry + 1
      BY <1>2, <1>10, <2>7, <3>1 DEF Probed
    <3>3. NextBus > at.bus /\ at.bus = mcfg[at.entry].end
      BY <1>4, <1>5, <1>11, <3>1 DEF LastBus, NextBus
    <3>4. ASSUME In, f[1] = at.entry PROVE Below \/ Here
      <4>1. f[2] <= at.bus
        BY <1>11, <2>1, <3>3, <3>4
      <4>2. f[2] \in Nat /\ f[3] \in 0 .. MaxDevices - 1 /\ f[4] \in 0 .. MaxFunctions - 1
        BY <2>5, <3>4
      <4> QED
        BY <1>1, <3>3, <4>1, <4>2, NextPlace
    <3> HIDE DEF In, Below
    <3>5. f[1] < at.entry + 1 <=> f[1] < at.entry \/ f[1] = at.entry
      BY <1>11, <2>1
    <3>6. f = Place <=> f[1] = at.entry /\ Here
      BY <2>2
    <3> HIDE DEF Here
    <3> QED
      BY <2>3, <2>4, <3>2, <3>4, <3>5, <3>6
  <2> QED
    BY <1>7, <2>6, <2>7
<1> QED
  BY <1>7, <1>8, <1>9, <1>12, <1>13
-----------------------------------------------------------------------------
LEMMA AnswersAt ==
  ASSUME PciTypes, Place[4] = 0
  PROVE  Answers(at.entry, Block) <=> Place \in Functions
<1>1. at.bus \in Nat /\ at.dev \in 0 .. MaxDevices - 1 /\ at.func \in 0 .. MaxFunctions - 1
  BY DEF PciTypes
<1>2. at.func = 0
  BY DEF Place
<1>3. at.dev \in 0 .. 31 /\ at.func \in 0 .. 7
  BY <1>1, Bounds
<1>4. /\ FunctionAt(at.entry, EcamReg(at.bus, at.dev, at.func)) = <<at.entry, at.bus, at.dev, 0>>
      /\ BlockOf(EcamReg(at.bus, at.dev, at.func)) = at.func
  BY <1>1, <1>3, AddressOf
<1>5. FunctionAt(at.entry, Block) = Place /\ BlockOf(Block) = Header
  BY <1>2, <1>4 DEF Block, Place, Header
<1> QED
  BY <1>5 DEF Answers

LEMMA Appended ==
  ASSUME NEW s \in Seq(Nat), NEW f \in Nat
  PROVE  /\ Append(s, f) \in Seq(Nat) /\ Len(Append(s, f)) = Len(s) + 1
         /\ \A i \in 1 .. Len(s) : Append(s, f)[i] = s[i]
         /\ Append(s, f)[Len(s) + 1] = f
OBVIOUS

\* An element put in front.
LEMMA InFront ==
  ASSUME NEW S, NEW x \in S, NEW s \in Seq(S)
  PROVE  /\ <<x>> \o s \in Seq(S) /\ Len(<<x>> \o s) = Len(s) + 1
         /\ (<<x>> \o s)[1] = x
         /\ \A i \in 2 .. Len(s) + 1 : (<<x>> \o s)[i] = s[i - 1]
<1>1. <<x>> \in Seq(S) /\ Len(<<x>>) = 1 /\ <<x>>[1] = x
  OBVIOUS
<1> QED
  BY <1>1

THEOREM PciStarts ==
  PciInit => PciInv
<1> SUFFICES ASSUME PciInit PROVE PciInv
  OBVIOUS
<1>1. Functions \subseteq Everywhere
  <2>1. PICK zero \in SUBSET Slots : \E more \in [zero -> SUBSET Uppers] :
          /\ class \in [Present(zero, more) -> {"ahci", "other"}]
          /\ caps \in SUBSET {<<Append(s, 0), k>> : s \in zero, k \in ExtBlocks}
    BY DEF PciInit
  <2>2. PICK more \in [zero -> SUBSET Uppers] : class \in [Present(zero, more) -> {"ahci", "other"}]
    BY <2>1
  <2>3. Functions = UNION {{Append(s, f) : f \in more[s] \cup {0}} : s \in zero}
    BY <2>2 DEF Functions, Present
  <2>4. ASSUME NEW s \in zero, NEW f \in more[s] \cup {0} PROVE Append(s, f) \in Everywhere
    <3>1. s \in Nat \X Nat \X (0 .. 31)
      BY PciAssumption
    <3>2. f \in 0 .. 7
      BY PciAssumption
    <3>3. PICK a \in Nat, b \in Nat, c \in 0 .. 31 : s = <<a, b, c>>
      BY <3>1
    <3>4. Append(s, f) = <<a, b, c, f>>
      <4>1. s \in Seq(Nat) /\ Len(s) = 3 /\ s[1] = a /\ s[2] = b /\ s[3] = c
        BY <3>3
      <4>2. f \in Nat
        BY <3>2
      <4>3. /\ Append(s, f) \in Seq(Nat) /\ Len(Append(s, f)) = 4
            /\ \A i \in 1 .. 3 : Append(s, f)[i] = s[i]
            /\ Append(s, f)[4] = f
        <5>1. /\ Append(s, f) \in Seq(Nat) /\ Len(Append(s, f)) = Len(s) + 1
              /\ \A i \in 1 .. Len(s) : Append(s, f)[i] = s[i]
              /\ Append(s, f)[Len(s) + 1] = f
          BY <4>1, <4>2, Appended, Zenon
        <5>2. Len(s) = 3 /\ 3 + 1 = 4
          BY <4>1
        <5> QED
          BY <5>1, <5>2, Zenon
      <4>4. /\ <<a, b, c, f>> \in Seq(Nat) /\ Len(<<a, b, c, f>>) = 4
        BY <4>2
      <4>5. Append(s, f)[1] = a /\ Append(s, f)[2] = b /\ Append(s, f)[3] = c
        BY <4>1, <4>3
      <4>6. \A i \in 1 .. Len(Append(s, f)) : Append(s, f)[i] = <<a, b, c, f>>[i]
        BY <4>3, <4>5
      <4>7. Len(Append(s, f)) = Len(<<a, b, c, f>>)
        BY <4>3, <4>4
      <4> QED
        BY <4>3, <4>4, <4>6, <4>7, SeqEqual, Zenon
    <3> QED
      BY <3>2, <3>3, <3>4 DEF Everywhere
  <2>5. ASSUME NEW p \in Functions PROVE p \in Everywhere
    <3>1. PICK s \in zero : p \in {Append(s, f) : f \in more[s] \cup {0}}
      BY <2>3
    <3>2. PICK f \in more[s] \cup {0} : p = Append(s, f)
      BY <3>1
    <3> QED
      BY <2>4, <3>2
  <2> QED
    BY <2>5
<1>2. PciTypes
  <2>1. at \in [entry : Nat \ {0}, bus : Nat, dev : 0 .. MaxDevices - 1, func : 0 .. MaxFunctions - 1]
    <3>1. 0 \in 0 .. MaxDevices - 1 /\ 0 \in 0 .. MaxFunctions - 1
      BY Bounds
    <3>2. at = [entry |-> 1, bus |-> 0, dev |-> 0, func |-> 0]
      BY DEF PciInit
    <3> QED
      BY <3>1, <3>2
  <2> QED
    BY <1>1, <2>1 DEF PciInit, PciTypes, PciStages
<1>3. InRange
  BY DEF PciInit, InRange
<1>4. Listed = {} /\ lost = {} /\ \A f : ~ Probed(f)
  BY DEF PciInit, Listed, Probed
<1>5. ListedOnce
  BY <1>4 DEF PciInit, ListedOnce
<1>6. ZeroListed
  BY <1>4 DEF ZeroListed
<1>7. PickedInv
  BY DEF PciInit, PickedInv
<1> QED
  BY <1>2, <1>3, <1>5, <1>6, <1>7 DEF PciInv
-----------------------------------------------------------------------------
\* A step that does not scan leaves what is behind the scan as it is.
LEMMA StillProbed ==
  ASSUME ListedOnce, ZeroListed, PciTypes, class' = class, devices' = devices, lost' = lost,
         \A f \in Everywhere : Probed(f)' <=> Probed(f)
  PROVE  ListedOnce' /\ ZeroListed'
<1>1. Listed' = Listed /\ Functions' = Functions
  BY DEF Listed, Functions
<1>2. Listed \subseteq Everywhere /\ lost \subseteq Everywhere /\ Functions \subseteq Everywhere
  BY DEF Listed, PciTypes
<1>3. ListedOnce'
  BY <1>1, <1>2 DEF ListedOnce
<1>4. {f \in Functions : f[4] = 0 /\ Probed(f)'} = {f \in Functions : f[4] = 0 /\ Probed(f)}
  BY <1>2
<1>5. ZeroListed'
  BY <1>1, <1>4 DEF ZeroListed
<1> QED
  BY <1>3, <1>5

LEMMA FindMcfgKeeps ==
  ASSUME PciInv, FindMcfg
  PROVE  PciInv'
<1>1. /\ stage = "acpi" /\ mcfg = NoTable /\ at.entry = 1 /\ at \in [entry : Nat \ {0}, bus : Nat, dev : 0 .. MaxDevices - 1, func : 0 .. MaxFunctions - 1]
      /\ xsdt \in Tables /\ PciTypes /\ ListedOnce /\ ZeroListed /\ PickedInv
  BY DEF PciInv, PciTypes, InRange, FindMcfg
<1>2. UNCHANGED <<class, caps, xsdt, at, devices, command, picked, controller, refused, lost>>
  BY DEF FindMcfg, machine
<1>3. \/ stage' = "search" /\ mcfg' = NoTable
      \/ stage' = "entry" /\ mcfg' # NoTable /\ mcfg' \in Entries
  <2>1. CASE {i \in DOMAIN xsdt : IsMcfg(i)} = {}
    BY <1>1, <2>1 DEF FindMcfg
  <2>2. CASE {i \in DOMAIN xsdt : IsMcfg(i)} # {}
    <3>1. stage' = "entry"
      BY <2>2 DEF FindMcfg
    <3>2. PICK i \in DOMAIN xsdt : IsMcfg(i) /\ mcfg' = xsdt[i]
      BY <2>2 DEF FindMcfg
    <3>3. xsdt \in Seq(Entries \cup {NoTable})
      BY <1>1, PciAssumption DEF Entries
    <3>4. xsdt[i] \in Entries \cup {NoTable}
      BY <3>3
    <3> QED
      BY <3>1, <3>2, <3>4 DEF IsMcfg
  <2> QED
    BY <2>1, <2>2
<1>4. \A f \in Everywhere : ~ Probed(f)
  BY <1>1 DEF Probed
<1>5. \A f \in Everywhere : ~ Probed(f)'
  <2> SUFFICES ASSUME NEW f \in Everywhere, Probed(f)' PROVE FALSE
    OBVIOUS
  <2>1. CASE stage' = "search" /\ mcfg' = NoTable
    BY <2>1 DEF Probed
  <2>2. CASE stage' = "entry" /\ mcfg' # NoTable /\ mcfg' \in Entries
    <3>1. f[1] \in DOMAIN mcfg' /\ f[1] < at.entry
      BY <1>2, <2>2 DEF Probed
    <3>2. \A i \in DOMAIN mcfg' : i \in Nat /\ i >= 1
      BY <2>2 DEF Entries
    <3> QED
      BY <1>1, <3>1, <3>2
  <2> QED
    BY <1>3, <2>1, <2>2
<1>6. PciTypes'
  BY <1>1, <1>2, <1>3 DEF PciTypes, PciStages, Functions
<1>7. InRange'
  BY <1>3 DEF InRange
<1>8. ListedOnce' /\ ZeroListed'
  BY <1>1, <1>2, <1>4, <1>5, StillProbed
<1>9. PickedInv'
  BY <1>1, <1>2, <1>3 DEF PickedInv, Functions
<1> QED
  BY <1>6, <1>7, <1>8, <1>9 DEF PciInv

LEMMA StartEntryKeeps ==
  ASSUME PciInv, StartEntry
  PROVE  PciInv'
<1>1. /\ stage = "entry" /\ mcfg # NoTable /\ mcfg \in Entries
      /\ at \in [entry : Nat \ {0}, bus : Nat, dev : 0 .. MaxDevices - 1, func : 0 .. MaxFunctions - 1]
      /\ PciTypes /\ ListedOnce /\ ZeroListed /\ PickedInv
  BY DEF PciInv, PciTypes, InRange, StartEntry
<1>2. UNCHANGED <<class, caps, xsdt, mcfg, devices, command, picked, controller, refused, lost>>
  BY DEF StartEntry, machine
<1>3. DOMAIN mcfg = 1 .. Len(mcfg) /\ Len(mcfg) \in Nat /\ at.entry \in Nat /\ at.entry >= 1
  BY <1>1 DEF Entries
<1>4. \A e \in DOMAIN mcfg : mcfg[e].start \in Nat /\ mcfg[e].end \in Nat
  <2>1. mcfg \in [1 .. Len(mcfg) -> [start : Nat, end : Nat]]
    BY <1>1, LenProperties DEF Entries
  <2> QED
    BY <1>3, <2>1
<1>5. \A f \in Everywhere : Probed(f) <=>
        /\ f[1] \in DOMAIN mcfg /\ f[2] \in mcfg[f[1]].start .. mcfg[f[1]].end
        /\ f[3] < MaxDevices /\ f[4] < MaxFunctions /\ f[1] < at.entry
  BY <1>1 DEF Probed
<1>6. CASE /\ at.entry <= Len(mcfg) /\ mcfg[at.entry].start <= LastBus(at.entry)
           /\ at' = [at EXCEPT !.bus = mcfg[at.entry].start, !.dev = 0, !.func = 0]
           /\ stage' = "probe"
  <2>1. at.entry \in DOMAIN mcfg /\ mcfg[at.entry].start \in Nat /\ mcfg[at.entry].end \in Nat
    BY <1>3, <1>4, <1>6
  <2>2. /\ at'.entry = at.entry /\ at'.bus = mcfg[at.entry].start /\ at'.dev = 0 /\ at'.func = 0
        /\ at' \in [entry : Nat \ {0}, bus : Nat, dev : 0 .. MaxDevices - 1, func : 0 .. MaxFunctions - 1]
    <3>1. 0 \in 0 .. MaxDevices - 1 /\ 0 \in 0 .. MaxFunctions - 1
      BY Bounds
    <3> QED
      BY <1>1, <1>6, <2>1, <3>1
  <2>3. PciTypes'
    BY <1>1, <1>2, <1>6, <2>2 DEF PciTypes, PciStages, Functions
  <2>4. InRange'
    BY <1>1, <1>2, <1>6, <2>1, <2>2 DEF InRange, LastBus
  <2>5. ASSUME NEW f \in Everywhere PROVE Probed(f)' <=> Probed(f)
    <3>1. f[2] \in Nat /\ f[3] \in Nat /\ f[4] \in Nat /\ f[1] \in Nat
      BY PlaceParts
    <3>2. BaseOf(f) >= 4096 * f[2]
      BY <3>1 DEF BaseOf, EcamReg, BusBlocks, DevBlocks, PageBlocks
    <3>3. Block' = 4096 * mcfg[at.entry].start
      BY <2>1, <2>2 DEF Block, EcamReg, BusBlocks, DevBlocks, PageBlocks
    <3>4. f[1] = at.entry /\ f[2] \in mcfg[f[1]].start .. mcfg[f[1]].end => ~ BaseOf(f) < Block'
      <4> SUFFICES ASSUME f[1] = at.entry, f[2] \in mcfg[f[1]].start .. mcfg[f[1]].end
                   PROVE  ~ BaseOf(f) < Block'
        OBVIOUS
      <4>1. f[2] >= mcfg[at.entry].start /\ BaseOf(f) \in Nat
        BY <2>1, <3>1 DEF BaseOf, EcamReg, BusBlocks, DevBlocks, PageBlocks
      <4> QED
        BY <2>1, <3>1, <3>2, <3>3, <4>1
    <3>5. Probed(f)' <=> /\ f[1] \in DOMAIN mcfg /\ f[2] \in mcfg[f[1]].start .. mcfg[f[1]].end
                         /\ f[3] < MaxDevices /\ f[4] < MaxFunctions
                         /\ (f[1] < at.entry \/ (f[1] = at.entry /\ BaseOf(f) < Block'))
      BY <1>1, <1>2, <1>6, <2>2 DEF Probed, BaseOf
    <3> QED
      BY <1>5, <3>4, <3>5
  <2>6. PickedInv'
    BY <1>1, <1>2, <1>6 DEF PickedInv, Functions
  <2> QED
    BY <1>1, <1>2, <2>3, <2>4, <2>5, <2>6, StillProbed DEF PciInv
<1>7. CASE /\ at.entry <= Len(mcfg) /\ mcfg[at.entry].start > LastBus(at.entry)
           /\ at' = [at EXCEPT !.entry = @ + 1]
           /\ stage' = stage
  <2>1. at.entry \in DOMAIN mcfg /\ mcfg[at.entry].start \in Nat /\ mcfg[at.entry].end \in Nat
    BY <1>3, <1>4, <1>7
  <2>2. /\ at'.entry = at.entry + 1
        /\ at' \in [entry : Nat \ {0}, bus : Nat, dev : 0 .. MaxDevices - 1, func : 0 .. MaxFunctions - 1]
    BY <1>1, <1>7
  <2>3. PciTypes'
    BY <1>1, <1>2, <1>7, <2>2 DEF PciTypes, PciStages, Functions
  <2>4. InRange'
    BY <1>1, <1>2, <1>7 DEF InRange
  <2>5. ASSUME NEW f \in Everywhere PROVE Probed(f)' <=> Probed(f)
    <3>1. Probed(f)' <=> /\ f[1] \in DOMAIN mcfg /\ f[2] \in mcfg[f[1]].start .. mcfg[f[1]].end
                         /\ f[3] < MaxDevices /\ f[4] < MaxFunctions /\ f[1] < at.entry + 1
      BY <1>1, <1>2, <1>7, <2>2 DEF Probed
    <3>2. f[1] \in Nat /\ f[2] \in Nat
      BY PlaceParts
    <3>3. f[1] = at.entry => f[2] \notin mcfg[f[1]].start .. mcfg[f[1]].end
      BY <1>7, <2>1, <3>2 DEF LastBus
    <3>4. f[1] < at.entry + 1 <=> f[1] < at.entry \/ f[1] = at.entry
      BY <1>3, <3>2
    <3> QED
      BY <1>5, <3>1, <3>3, <3>4
  <2>6. PickedInv'
    BY <1>1, <1>2, <1>7 DEF PickedInv, Functions
  <2> QED
    BY <1>1, <1>2, <2>3, <2>4, <2>5, <2>6, StillProbed DEF PciInv
<1>8. CASE at.entry > Len(mcfg) /\ stage' = "search" /\ at' = at
  <2>1. PciTypes'
    BY <1>1, <1>2, <1>8 DEF PciTypes, PciStages, Functions
  <2>2. InRange'
    BY <1>8 DEF InRange
  <2>3. ASSUME NEW f \in Everywhere PROVE Probed(f)' <=> Probed(f)
    <3>1. Probed(f)' <=> /\ f[1] \in DOMAIN mcfg /\ f[2] \in mcfg[f[1]].start .. mcfg[f[1]].end
                         /\ f[3] < MaxDevices /\ f[4] < MaxFunctions
      BY <1>1, <1>2, <1>8 DEF Probed
    <3>2. f[1] \in DOMAIN mcfg => f[1] < at.entry
      BY <1>3, <1>8
    <3> QED
      BY <1>5, <3>1, <3>2
  <2>4. PickedInv'
    BY <1>1, <1>2, <1>8 DEF PickedInv, Functions
  <2> QED
    BY <1>1, <1>2, <2>1, <2>2, <2>3, <2>4, StillProbed DEF PciInv
<1> QED
  BY <1>6, <1>7, <1>8 DEF StartEntry
\* What the three outcomes of a probe have in common.
LEMMA ProbeKeeps ==
  ASSUME PciInv, stage = "probe", Onward, UNCHANGED <<machine, mcfg, command, picked, controller>>,
         devices' \in Seq(Everywhere), lost' \subseteq Everywhere, ListedOnce', ZeroListed'
  PROVE  PciInv'
<1>1. PciTypes /\ InRange /\ PickedInv
  BY DEF PciInv
<1>2. /\ at' \in [entry : Nat \ {0}, bus : Nat, dev : 0 .. MaxDevices - 1, func : 0 .. MaxFunctions - 1]
      /\ stage' \in {"entry", "probe"} /\ InRange'
  BY <1>1, OnwardDoes
<1>3. class' = class /\ xsdt' = xsdt /\ mcfg' = mcfg /\ command' = command
  BY DEF machine
<1>4. PciTypes'
  BY <1>1, <1>2, <1>3 DEF PciTypes, PciStages, Functions
<1>5. PickedInv'
  BY <1>1, <1>2, <1>3 DEF PickedInv, Functions
<1> QED
  BY <1>2, <1>4, <1>5 DEF PciInv

LEMMA ProbeNothingKeeps ==
  ASSUME PciInv, ProbeNothing
  PROVE  PciInv'
<1>1. /\ stage = "probe" /\ Onward /\ ~ Answers(at.entry, Block)
      /\ UNCHANGED <<machine, mcfg, devices, command, picked, controller, refused, lost>>
      /\ PciTypes /\ InRange /\ ListedOnce /\ ZeroListed
  BY DEF ProbeNothing, PciInv
<1>2. /\ \A f \in Everywhere : Probed(f)' <=> Probed(f) \/ f = Place
  BY <1>1, OnwardDoes
<1>3. Place[4] = 0 => Place \notin Functions
  BY <1>1, AnswersAt
<1>4. devices' = devices /\ lost' = lost /\ Listed' = Listed /\ Functions' = Functions
  BY <1>1 DEF machine, Listed, Functions
<1>5. Listed \subseteq Everywhere /\ lost \subseteq Everywhere /\ Functions \subseteq Everywhere
  BY <1>1 DEF Listed, PciTypes
<1>6. ListedOnce'
  BY <1>1, <1>2, <1>4, <1>5 DEF ListedOnce
<1>7. \A f \in Functions : f[4] = 0 => (Probed(f)' <=> Probed(f))
  BY <1>2, <1>3, <1>5
<1>8. ZeroListed'
  <2>1. {f \in Functions : f[4] = 0 /\ Probed(f)'} = {f \in Functions : f[4] = 0 /\ Probed(f)}
    BY <1>7
  <2> QED
    BY <1>1, <1>4, <2>1 DEF ZeroListed
<1>9. devices' \in Seq(Everywhere) /\ lost' \subseteq Everywhere
  BY <1>1, <1>4 DEF PciTypes
<1> QED
  BY <1>1, <1>6, <1>8, <1>9, ProbeKeeps

LEMMA ProbeListedKeeps ==
  ASSUME PciInv, ProbeListed
  PROVE  PciInv'
<1>1. /\ stage = "probe" /\ Onward /\ Answers(at.entry, Block) /\ devices' = <<Place>> \o devices
      /\ UNCHANGED <<machine, mcfg, command, picked, controller, refused, lost>>
      /\ PciTypes /\ InRange /\ ListedOnce /\ ZeroListed
  BY DEF ProbeListed, PciInv
<1>2. /\ \A f \in Everywhere : Probed(f)' <=> Probed(f) \/ f = Place
      /\ Place \in Everywhere /\ ~ Probed(Place)
  BY <1>1, OnwardDoes
<1>3. Place[4] = 0 => Place \in Functions
  BY <1>1, AnswersAt
<1>4. devices \in Seq(Everywhere) /\ lost \subseteq Everywhere /\ Functions \subseteq Everywhere
  BY <1>1 DEF PciTypes
<1>5. Len(devices) \in Nat /\ DOMAIN devices = 1 .. Len(devices)
  BY <1>4
<1>6. /\ devices' \in Seq(Everywhere) /\ Len(devices') = Len(devices) + 1
      /\ devices'[1] = Place
      /\ \A i \in 2 .. Len(devices) + 1 : devices'[i] = devices[i - 1]
  BY <1>1, <1>2, <1>4, InFront
<1>7. DOMAIN devices' = 1 .. Len(devices) + 1
  BY <1>6
<1>8. Listed' = {Place} \cup Listed
  <2>1. ASSUME NEW d \in Listed' PROVE d \in {Place} \cup Listed
    <3>1. PICK i \in 1 .. Len(devices) + 1 : d = devices'[i]
      BY <1>7 DEF Listed
    <3>2. CASE i = 1
      BY <1>6, <3>1, <3>2
    <3>3. CASE i # 1
      <4>1. i \in 2 .. Len(devices) + 1 /\ i - 1 \in 1 .. Len(devices)
        BY <1>5, <3>3
      <4>2. d = devices[i - 1]
        BY <1>6, <3>1, <4>1
      <4> QED
        BY <1>5, <4>1, <4>2 DEF Listed
    <3> QED
      BY <3>2, <3>3
  <2>2. Place \in Listed'
    <3>1. 1 \in 1 .. Len(devices) + 1
      BY <1>5
    <3> QED
      BY <1>6, <1>7, <3>1 DEF Listed
  <2>3. ASSUME NEW d \in Listed PROVE d \in Listed'
    <3>1. PICK i \in 1 .. Len(devices) : d = devices[i]
      BY <1>5 DEF Listed
    <3>2. PICK j : j = i + 1
      OBVIOUS
    <3>3. j \in 2 .. Len(devices) + 1 /\ j - 1 = i /\ j \in 1 .. Len(devices) + 1
      BY <1>5, <3>2
    <3>4. devices'[j] = d
      BY <1>6, <3>1, <3>3
    <3> QED
      BY <1>7, <3>3, <3>4 DEF Listed
  <2> QED
    BY <2>1, <2>2, <2>3
<1>9. Listed \subseteq Everywhere
  BY <1>4 DEF Listed
<1>10. lost' = lost /\ Functions' = Functions
  BY <1>1 DEF machine, Functions
<1>11. Place \notin Listed /\ Place \notin lost
  BY <1>1, <1>2 DEF ListedOnce
<1>12. ListedOnce'
  <2>1. ASSUME NEW i \in 1 .. Len(devices) + 1, NEW j \in 1 .. Len(devices) + 1, devices'[i] = devices'[j], i # 1, j # 1
        PROVE  i = j
    <3>1. PICK a, b : a = i - 1 /\ b = j - 1
      OBVIOUS
    <3>2. a \in 1 .. Len(devices) /\ b \in 1 .. Len(devices) /\ i \in 2 .. Len(devices) + 1 /\ j \in 2 .. Len(devices) + 1
      BY <1>5, <2>1, <3>1
    <3>3. devices[a] = devices[b]
      BY <1>6, <2>1, <3>1, <3>2
    <3>4. a = b
      BY <1>1, <1>5, <3>2, <3>3 DEF ListedOnce
    <3> QED
      BY <3>1, <3>2, <3>4
  <2>2. ASSUME NEW i \in 1 .. Len(devices) + 1, i # 1
        PROVE  devices'[i] # Place
    <3>1. i \in 2 .. Len(devices) + 1 /\ i - 1 \in 1 .. Len(devices)
      BY <1>5, <2>2
    <3>2. devices'[i] = devices[i - 1]
      BY <1>6, <3>1
    <3> QED
      BY <1>5, <1>11, <3>1, <3>2 DEF Listed
  <2>3. \A i, j \in 1 .. Len(devices) + 1 : devices'[i] = devices'[j] => i = j
    BY <1>6, <2>1, <2>2
  <2>4. \A d \in Listed' \cup lost' : Probed(d)'
    BY <1>1, <1>2, <1>4, <1>8, <1>9, <1>10 DEF ListedOnce
  <2> QED
    BY <1>7, <2>3, <2>4 DEF ListedOnce
<1>13. ZeroListed'
  <2>1. \A d : d \in Listed /\ d[4] = 0 <=> d \in Functions /\ d[4] = 0 /\ Probed(d) /\ d \notin lost
    BY <1>1 DEF ZeroListed
  <2>2. ASSUME NEW d \in Everywhere
        PROVE  d \in Listed' /\ d[4] = 0 <=> d \in Functions /\ d[4] = 0 /\ Probed(d)' /\ d \notin lost
    <3>1. CASE d = Place
      BY <1>2, <1>3, <1>8, <1>11, <3>1
    <3>2. CASE d # Place
      BY <1>2, <1>8, <2>1, <3>2
    <3> QED
      BY <3>1, <3>2
  <2>3. Listed' \subseteq Everywhere
    BY <1>2, <1>8, <1>9
  <2>4. {d \in Listed' : d[4] = 0} = {f \in Functions : f[4] = 0 /\ Probed(f)'} \ lost
    BY <1>4, <2>2, <2>3
  <2> QED
    BY <1>10, <2>4 DEF ZeroListed
<1>14. lost' \subseteq Everywhere
  BY <1>4, <1>10
<1> QED
  BY <1>1, <1>6, <1>12, <1>13, <1>14, ProbeKeeps

LEMMA ProbeRefusedKeeps ==
  ASSUME PciInv, ProbeRefused
  PROVE  PciInv'
<1>1. /\ stage = "probe" /\ Onward /\ Answers(at.entry, Block) /\ lost' = lost \cup {Place}
      /\ UNCHANGED <<machine, mcfg, devices, command, picked, controller>>
      /\ PciTypes /\ InRange /\ ListedOnce /\ ZeroListed
  BY DEF ProbeRefused, PciInv
<1>2. /\ \A f \in Everywhere : Probed(f)' <=> Probed(f) \/ f = Place
      /\ Place \in Everywhere /\ ~ Probed(Place)
  BY <1>1, OnwardDoes
<1>3. devices \in Seq(Everywhere) /\ lost \subseteq Everywhere /\ Functions \subseteq Everywhere
  BY <1>1 DEF PciTypes
<1>4. devices' = devices /\ Listed' = Listed /\ Functions' = Functions
  BY <1>1 DEF machine, Listed, Functions
<1>5. Listed \subseteq Everywhere
  BY <1>3 DEF Listed
<1>6. ListedOnce'
  BY <1>1, <1>2, <1>3, <1>4, <1>5 DEF ListedOnce
<1>7. ZeroListed'
  <2>1. {f \in Functions : f[4] = 0 /\ Probed(f)'} \ lost' = {f \in Functions : f[4] = 0 /\ Probed(f)} \ lost
    BY <1>1, <1>2, <1>3
  <2> QED
    BY <1>1, <1>4, <2>1 DEF ZeroListed
<1>8. devices' \in Seq(Everywhere) /\ lost' \subseteq Everywhere
  BY <1>1, <1>2, <1>3, <1>4
<1> QED
  BY <1>1, <1>6, <1>7, <1>8, ProbeKeeps
\* The scan is over, and neither it nor what it found changes any more.
LEMMA SearchOver ==
  ASSUME PciInv, stage \notin {"acpi", "entry", "probe"}, stage' \in PciStages \ {"acpi", "entry", "probe"},
         UNCHANGED <<machine, mcfg, at, devices, lost>>, PickedInv'
  PROVE  PciInv'
<1>1. PciTypes /\ ListedOnce /\ ZeroListed
  BY DEF PciInv
<1>2. class' = class /\ xsdt' = xsdt /\ mcfg' = mcfg /\ at' = at /\ devices' = devices /\ lost' = lost
  BY DEF machine
<1>3. PciTypes'
  BY <1>1, <1>2 DEF PciTypes, Functions
<1>4. InRange'
  BY DEF InRange
<1>5. ASSUME NEW f PROVE Probed(f)' <=> Probed(f)
  BY <1>2 DEF Probed
<1>6. ListedOnce' /\ ZeroListed'
  BY <1>1, <1>2, <1>5, StillProbed
<1> QED
  BY <1>3, <1>4, <1>6 DEF PciInv

\* An entry that reads as a controller is a function 0, so it is the function that answers there.
LEMMA PickedIsController ==
  ASSUME PciInv, NEW d \in Listed, Matches(d)
  PROVE  d # None /\ d \in Functions /\ class[d] = "ahci" /\ FunctionAt(d[1], BaseOf(d)) = d
<1>1. d \in Everywhere
  BY DEF PciInv, PciTypes, Listed
<1>2. /\ d[1] \in Nat /\ d[2] \in Nat /\ d[3] \in 0 .. 31 /\ d[4] \in 0 .. 7
      /\ d = <<d[1], d[2], d[3], d[4]>>
  BY <1>1, PlaceParts
<1>3. FunctionAt(d[1], BaseOf(d)) = <<d[1], d[2], d[3], 0>> /\ BlockOf(BaseOf(d)) = d[4]
  BY <1>2, AddressOf DEF BaseOf
<1>4. BlockOf(BaseOf(d)) = 0 /\ class[FunctionAt(d[1], BaseOf(d))] = "ahci"
  BY DEF Matches, ReadsAhci, Header
<1>5. FunctionAt(d[1], BaseOf(d)) = d
  BY <1>2, <1>3, <1>4
<1>6. d \in Functions
  BY <1>3, <1>4 DEF PciInv, ZeroListed
<1>7. d # None
  BY <1>2 DEF None
<1> QED
  BY <1>4, <1>5, <1>6, <1>7

LEMMA SearchKeeps ==
  ASSUME PciInv, Search
  PROVE  PciInv'
<1>1. /\ stage = "search" /\ UNCHANGED <<machine, mcfg, at, devices, lost>>
      /\ UNCHANGED <<command, controller>>
  BY DEF Search
<1>2. class' = class /\ Functions' = Functions
  BY <1>1 DEF machine, Functions
<1>3. command = [f \in Functions |-> {}]
  BY <1>1 DEF PciInv, PickedInv
<1>4. command' = [f \in Functions' |-> {}]
  BY <1>1, <1>2, <1>3
<1>5. \/ stage' = "done"
      \/ /\ stage' = "enable" /\ picked' # None /\ picked' \in Functions /\ class[picked'] = "ahci"
         /\ FunctionAt(picked'[1], BaseOf(picked')) = picked'
  <2>1. CASE {i \in DOMAIN devices : Matches(devices[i])} = {}
    BY <2>1 DEF Search
  <2>2. CASE {i \in DOMAIN devices : Matches(devices[i])} # {}
    <3>1. stage' = "enable"
      BY <2>2 DEF Search
    <3>2. PICK i \in DOMAIN devices : Matches(devices[i]) /\ picked' = devices[i]
      BY <2>2 DEF Search
    <3>3. PICK d : d = devices[i]
      OBVIOUS
    <3>4. d \in Listed /\ Matches(d) /\ picked' = d
      BY <3>2, <3>3 DEF Listed
    <3>5. d # None /\ d \in Functions /\ class[d] = "ahci" /\ FunctionAt(d[1], BaseOf(d)) = d
      BY <3>4, PickedIsController
    <3> QED
      BY <3>1, <3>4, <3>5, Zenon
  <2> QED
    BY <2>1, <2>2
<1>6. Target' = FunctionAt(picked'[1], BaseOf(picked'))
  BY DEF Target, FunctionAt, BaseOf
<1>7. PickedInv'
  <2>1. CASE stage' = "done"
    BY <1>4, <2>1 DEF PickedInv
  <2>2. CASE stage' = "enable"
    BY <1>2, <1>4, <1>5, <1>6, <2>2 DEF PickedInv
  <2> QED
    BY <1>5, <2>1, <2>2
<1>8. stage' \in PciStages \ {"acpi", "entry", "probe"}
  BY <1>5 DEF PciStages
<1> QED
  BY <1>1, <1>7, <1>8, SearchOver

LEMMA EnableKeeps ==
  ASSUME PciInv, Enable
  PROVE  PciInv'
<1>1. /\ stage = "enable" /\ stage' = "map" /\ command' = [command EXCEPT ![Target] = command[Target] \cup EnabledBits]
      /\ UNCHANGED <<machine, mcfg, at, devices, lost>> /\ picked' = picked
  BY DEF Enable
<1>2. /\ command = [f \in Functions |-> {}]
      /\ picked # None /\ picked \in Functions /\ class[picked] = "ahci" /\ Target = picked
  BY <1>1 DEF PciInv, PickedInv
<1>3. class' = class /\ Functions' = Functions /\ Target' = Target
  BY <1>1 DEF machine, Functions, Target
<1>4. command' = [f \in Functions |-> IF f = Target THEN EnabledBits ELSE {}]
  BY <1>1, <1>2
<1>5. PickedInv'
  BY <1>1, <1>2, <1>3, <1>4 DEF PickedInv, EnabledBits
<1> QED
  BY <1>1, <1>5, SearchOver DEF PciStages

LEMMA MapKeeps ==
  ASSUME PciInv, Map
  PROVE  PciInv'
<1>1. /\ stage = "map" /\ stage' = "ghc" /\ controller' \in {Target, "garbage"}
      /\ UNCHANGED <<machine, mcfg, at, devices, lost>> /\ picked' = picked /\ command' = command
  BY DEF Map
<1>2. /\ command = [f \in Functions |-> IF f = Target THEN EnabledBits ELSE {}]
      /\ picked # None /\ picked \in Functions /\ class[picked] = "ahci" /\ Target = picked
  BY <1>1 DEF PciInv, PickedInv
<1>3. class' = class /\ Functions' = Functions /\ Target' = Target
  BY <1>1 DEF machine, Functions, Target
<1>4. PickedInv'
  BY <1>1, <1>2, <1>3 DEF PickedInv, EnabledBits
<1> QED
  BY <1>1, <1>4, SearchOver DEF PciStages

LEMMA EnableAhciKeeps ==
  ASSUME PciInv, EnableAhci
  PROVE  PciInv'
<1>1. /\ stage = "ghc" /\ stage' \in {"undefined", "done"}
      /\ UNCHANGED <<machine, mcfg, at, devices, lost>> /\ picked' = picked /\ command' = command
  BY DEF EnableAhci
<1>2. /\ command = [f \in Functions |-> IF f = Target THEN EnabledBits ELSE {}]
      /\ picked # None /\ picked \in Functions /\ class[picked] = "ahci" /\ Target = picked
  BY <1>1 DEF PciInv, PickedInv
<1>3. class' = class /\ Functions' = Functions /\ Target' = Target
  BY <1>1 DEF machine, Functions, Target
<1>4. PickedInv'
  BY <1>1, <1>2, <1>3 DEF PickedInv, EnabledBits
<1> QED
  BY <1>1, <1>4, SearchOver DEF PciStages

THEOREM PciStep ==
  PciInv /\ [PciNext]_pciVars => PciInv'
<1> SUFFICES ASSUME PciInv, [PciNext]_pciVars PROVE PciInv'
  OBVIOUS
<1>1. CASE FindMcfg
  BY <1>1, FindMcfgKeeps
<1>2. CASE StartEntry
  BY <1>2, StartEntryKeeps
<1>3. CASE ProbeNothing
  BY <1>3, ProbeNothingKeeps
<1>4. CASE ProbeListed
  BY <1>4, ProbeListedKeeps
<1>5. CASE ProbeRefused
  BY <1>5, ProbeRefusedKeeps
<1>6. CASE Search
  BY <1>6, SearchKeeps
<1>7. CASE Enable
  BY <1>7, EnableKeeps
<1>8. CASE Map
  BY <1>8, MapKeeps
<1>9. CASE EnableAhci
  BY <1>9, EnableAhciKeeps
<1>10. CASE UNCHANGED pciVars
  <2>1. UNCHANGED <<class, caps, xsdt, mcfg, stage, at, devices, command, picked, controller, lost>>
    BY <1>10 DEF pciVars, machine
  <2>2. \A f : Probed(f)' <=> Probed(f)
    BY <2>1 DEF Probed, Block
  <2>3. PciTypes /\ InRange /\ ListedOnce /\ ZeroListed /\ PickedInv
    BY DEF PciInv
  <2>4. PciTypes' /\ InRange' /\ PickedInv'
    BY <2>1, <2>3 DEF PciTypes, InRange, PickedInv, Functions, Target
  <2>5. ListedOnce' /\ ZeroListed'
    BY <2>1, <2>2, <2>3, StillProbed
  <2> QED
    BY <2>4, <2>5 DEF PciInv
<1> QED
  BY <1>1, <1>2, <1>3, <1>4, <1>5, <1>6, <1>7, <1>8, <1>9, <1>10 DEF PciNext

\* The types of the search for the controller and its inductive invariant.
THEOREM PciIsInductive ==
  PciSpec => []PciInv
<1>1. PciInit => PciInv
  BY PciStarts
<1>2. PciInv /\ [PciNext]_pciVars => PciInv'
  BY PciStep
<1> QED
  BY <1>1, <1>2, PTL DEF PciSpec

\* pcie.c lists no place twice, and of the functions 0 it has passed exactly those that
\* exist and were given memory, in every configuration space and whatever the MCFG says.
THEOREM PciListsFunctionsZero ==
  PciSpec => []FunctionsZeroListed
<1>1. ASSUME PciInv PROVE FunctionsZeroListed
  <2>1. devices \in Seq(Everywhere) /\ ListedOnce /\ ZeroListed
    BY <1>1 DEF PciInv, PciTypes
  <2>2. Len(devices) \in Nat /\ DOMAIN devices = 1 .. Len(devices)
    BY <2>1
  <2>3. devices \in [1 .. Len(devices) -> Listed]
    BY <2>1, <2>2 DEF Listed
  <2>4. devices \in Injection(1 .. Len(devices), Listed)
    BY <2>1, <2>2, <2>3 DEF ListedOnce, Injection, IsInjective
  <2>5. devices \in Surjection(1 .. Len(devices), Listed)
    BY <2>2, <2>3 DEF Listed, Surjection
  <2>6. ExistsBijection(1 .. Len(devices), Listed)
    BY <2>4, <2>5 DEF Bijection, ExistsBijection
  <2>7. Cardinality(Listed) = Len(devices)
    BY <2>2, <2>6, FS_NatBijection, FS_CountingElements
  <2> QED
    BY <2>1, <2>7 DEF FunctionsZeroListed, ZeroListed
<1> QED
  BY <1>1, PciIsInductive, PTL

\* init_ahci writes the command register of one function only, and the function it
\* drives is a controller that decodes memory and may do DMA.
THEOREM PciEnablesController ==
  PciSpec => []ControllerEnabled
<1>1. ASSUME PciInv PROVE ControllerEnabled
  <2>1. PciTypes /\ PickedInv
    BY <1>1 DEF PciInv
  <2>2. stage = "ghc" /\ controller # "garbage" =>
          class[controller] = "ahci" /\ command[controller] = {"memory", "master"}
    <3> SUFFICES ASSUME stage = "ghc", controller # "garbage"
                 PROVE  class[controller] = "ahci" /\ command[controller] = {"memory", "master"}
      OBVIOUS
    <3>1. /\ controller = picked /\ picked \in Functions /\ class[picked] = "ahci" /\ Target = picked
          /\ command = [f \in Functions |-> IF f = Target THEN EnabledBits ELSE {}]
      BY <2>1 DEF PickedInv
    <3> QED
      BY <3>1 DEF EnabledBits
  <2>3. ASSUME NEW f \in Functions, command[f] # {} PROVE picked # None /\ f = Target
    <3>1. command # [g \in Functions |-> {}]
      BY <2>3
    <3>2. /\ picked # None /\ command = [g \in Functions |-> IF g = Target THEN EnabledBits ELSE {}]
      BY <2>1, <3>1 DEF PickedInv, PciTypes, PciStages
    <3> QED
      BY <2>3, <3>2
  <2> QED
    BY <2>2, <2>3 DEF ControllerEnabled
<1> QED
  BY <1>1, PciIsInductive, PTL
=============================================================================
