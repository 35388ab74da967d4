------------------------------- MODULE VmMap -------------------------------
(***************************************************************************)
(* Kernel mappings: vm_map over the four levels of page tables             *)
(* (arch/x86/mm/paging.c), and vmap, which records what it has mapped as   *)
(* areas of the kernel space (mm/vmm.c).  Addresses are page numbers; the  *)
(* alignment test of vm_map is left out with them.                         *)
(*                                                                         *)
(* No table is shared, so an entry is named by its level and the number of *)
(* the span of addresses it stands for.  Each turn of the loop over the    *)
(* levels is a step: the processor translates addresses between any two.   *)
(***************************************************************************)
EXTENDS Integers, FiniteSets

CONSTANTS Fanout,         \* entries of a table below the top one, 512
          Roots,          \* entries of pgd, 512
          U64,            \* addresses there are, 2^52 pages
          PhysPages,      \* pages PHYS_ADDR_MASK reaches
          Virts, Physes, Sizes,   \* what callers of vmap ask for
          MaxAreas        \* bound: areas kmalloc finds memory for

Top    == 3                                       \* shift 39
Levels == 0 .. Top                                \* shift 12 + 9 * level
Span[l \in Levels] == IF l = 0 THEN 1 ELSE Fanout * Span[l - 1]
Space  == Roots * Span[Top]                       \* addresses of 48 bits

ASSUME VmMapAssumption ==
  /\ Fanout \in Nat \ {0, 1} /\ Roots \in Nat \ {0, 1} /\ Roots % 2 = 0
  /\ U64 \in Nat /\ U64 % Space = 0 /\ U64 > Space
  /\ PhysPages \in Nat /\ MaxAreas \in Nat
  /\ Virts \subseteq 0 .. U64 - 1 /\ Physes \subseteq Nat /\ Sizes \subseteq 0 .. U64 - 1

VARIABLES entry,          \* <<level, number>> -> what the entry holds
          areas,          \* kernel_space.areas
          pc,             \* "idle", or the pass vm_map is in
          req,            \* its arguments, an area
          done, level,    \* pages the pass has behind it, level it is at
          result          \* what the last call answered

vars == <<entry, areas, pc, req, done, level, result>>

Keys == UNION {{l} \X (0 .. Space \div Span[l] - 1) : l \in Levels}
Key(l, va) == <<l, (va % Space) \div Span[l]>>

All        == {"rw", "user"}
Empty      == [kind |-> "empty", pa |-> 0, perm |-> {}]
Table(ps)  == [kind |-> "table", pa |-> 0, perm |-> ps]
Leaf(p, ps) == [kind |-> "leaf", pa |-> p, perm |-> ps]

NoArea == [phys |-> 0, virt |-> 0, size |-> 0, perm |-> {}]

\* init.S: the first and the last entry of pgd lead to tables of large pages
\* that map physical memory from 0, for the kernel alone.
BootTable(k) == k[1] = Top /\ k[2] \in {0, Roots - 1}
BootLeaf(k)  == k[1] = Top - 1 /\ BootTable(<<Top, k[2] \div Fanout>>)

Init ==
  /\ entry = [k \in Keys |-> IF BootTable(k) THEN Table({"rw"})
                             ELSE IF BootLeaf(k) THEN Leaf((k[2] % Fanout) * Span[Top - 1], {"rw"})
                             ELSE Empty]
  /\ areas = {} /\ pc = "idle" /\ req = NoArea
  /\ done = 0 /\ level = Top /\ result = "none"

-----------------------------------------------------------------------------
(* vm_map *)

Half(va) == (2 * va) \div Space

Valid(a) ==
  /\ a.size - 1 <= U64 - 1 - a.virt
  /\ a.phys < PhysPages /\ a.size - 1 <= PhysPages - 1 - a.phys
  /\ Half(a.virt) \in {0, 2 * (U64 \div Space) - 1}
  /\ Half(a.virt + a.size - 1) = Half(a.virt)

Here == Key(level, req.virt + done)

\* (mutant) The alignment of the physical address is not looked at.
IsLeafMisaligned ==
  \/ level = 0
  \/ /\ level \in 1 .. Top - 1
     /\ (req.virt + done) % Span[level] = 0 /\ req.size - done >= Span[level]
     /\ entry[Here] = Empty

\* A large page wants both addresses aligned, the rest of the range as long,
\* and no entry in its place.
IsLeaf ==
  \/ level = 0
  \/ /\ level \in 1 .. Top - 1
     /\ (req.virt + done) % Span[level] = 0 /\ (req.phys + done) % Span[level] = 0
     /\ req.size - done >= Span[level]
     /\ entry[Here] = Empty

Descend == level' = level - 1 /\ UNCHANGED done

\* The pass is past a leaf: the next one starts at the top again, and at the
\* end of the range the pass is over.
Advance(endOfPass) ==
  /\ level' = Top
  /\ IF done + Span[level] = req.size
       THEN endOfPass
       ELSE done' = done + Span[level] /\ UNCHANGED <<pc, result, areas>>

\* vmap frees the area it had prepared.
Return(e) ==
  /\ pc' = "idle" /\ result' = e
  /\ req' = NoArea /\ done' = 0 /\ level' = Top

Succeed ==
  /\ pc' = "idle" /\ result' = "ok" /\ done' = 0
  /\ areas' = areas \cup {req}

CheckLeaf ==
  /\ pc = "first" /\ IsLeaf
  /\ IF entry[Here] # Empty
       THEN Return("EEXIST") /\ UNCHANGED areas
       ELSE /\ Advance(pc' = "second" /\ done' = 0 /\ UNCHANGED <<result, areas>>)
            /\ UNCHANGED req
  /\ UNCHANGED entry

\* (mutant) A large page is taken for a table.
CheckTableAnyKind ==
  /\ pc = "first" /\ ~ IsLeaf /\ entry[Here] # Empty
  /\ IF ~ req.perm \subseteq entry[Here].perm THEN Return("EINVAL")
     ELSE Descend /\ UNCHANGED <<pc, result, req>>
  /\ UNCHANGED <<entry, areas>>

CheckTable ==
  /\ pc = "first" /\ ~ IsLeaf /\ entry[Here] # Empty
  /\ IF entry[Here].kind = "leaf" THEN Return("EEXIST")
     ELSE IF ~ req.perm \subseteq entry[Here].perm THEN Return("EINVAL")
     ELSE Descend /\ UNCHANGED <<pc, result, req>>
  /\ UNCHANGED <<entry, areas>>

\* vm_page_alloc may find no page; the tables allocated so far stay.
AddTable ==
  /\ pc = "first" /\ ~ IsLeaf /\ entry[Here] = Empty
  /\ \/ Return("ENOMEM") /\ UNCHANGED entry
     \/ /\ entry' = [entry EXCEPT ![Here] = Table(All)]
        /\ Descend /\ UNCHANGED <<pc, result, req>>
  /\ UNCHANGED areas

InstallLeaf ==
  /\ pc = "second" /\ IsLeaf
  /\ entry' = [entry EXCEPT ![Here] = Leaf(req.phys + done, req.perm)]
  /\ Advance(Succeed)
  /\ req' = IF pc' = "idle" THEN NoArea ELSE req

FollowTable ==
  /\ pc = "second" /\ ~ IsLeaf
  /\ Descend
  /\ UNCHANGED <<entry, areas, pc, req, result>>

\* vmap, and the beginning of vm_map.  An area of no pages is recorded.
Vmap(a) ==
  /\ pc = "idle"
  /\ \/ /\ result' = "ENOMEM" /\ UNCHANGED <<areas, pc, req>>      \* kmalloc fails
     \/ /\ Cardinality(areas) < MaxAreas
        /\ \/ /\ a.size = 0
              /\ areas' = areas \cup {a} /\ result' = "ok" /\ UNCHANGED <<pc, req>>
           \/ /\ a.size # 0 /\ ~ Valid(a)
              /\ result' = "EINVAL" /\ UNCHANGED <<areas, pc, req>>
           \/ /\ a.size # 0 /\ Valid(a)
              /\ pc' = "first" /\ req' = a /\ result' = "none"
              /\ UNCHANGED areas
  /\ UNCHANGED <<entry, done, level>>

Requests == [phys : Physes, virt : Virts, size : Sizes, perm : {{"rw"}, All}]

Next ==
  \/ CheckLeaf \/ CheckTable \/ AddTable \/ InstallLeaf \/ FollowTable
  \/ \E a \in Requests : Vmap(a)

Spec == Init /\ [][Next]_vars

-----------------------------------------------------------------------------
(* Correctness *)

\* Levels at which the processor finds a leaf for va, and the translation: it
\* takes no notice of the low bits of a large page's address.
LeavesFor(va) ==
  {l \in Levels : /\ entry[Key(l, va)].kind = "leaf"
                  /\ \A k \in l + 1 .. Top : entry[Key(k, va)].kind = "table"}

Unmapped == [pa |-> -1, perm |-> {}]

Translate(va) ==
  IF LeavesFor(va) = {} THEN Unmapped
  ELSE LET l == CHOOSE l \in LeavesFor(va) : TRUE
           e == entry[Key(l, va)]
       IN  [pa   |-> (e.pa - (e.pa % Span[l])) + (va % Span[l]),
            perm |-> {p \in e.perm : \A k \in l + 1 .. Top : p \in entry[Key(k, va)].perm}]

Canonical == 0 .. Space \div 2 - 1 \cup U64 - Space \div 2 .. U64 - 1

Covers(a, va) == a.virt <= va /\ va < a.virt + a.size

\* What va should be translated to: what an area says, what the second pass
\* has installed of the request, or what the boot tables say.
Claims(va) ==
  {[pa |-> a.phys + va - a.virt, perm |-> a.perm] :
     a \in {a \in areas : Covers(a, va)}
           \cup (IF pc = "second" /\ Covers([req EXCEPT !.size = done], va) THEN {req} ELSE {})}
  \cup (IF BootTable(Key(Top, va)) THEN {[pa |-> (va % Span[Top]), perm |-> {"rw"}]} ELSE {})

\* The tables translate exactly the areas and the boot mapping, with the
\* permissions asked for, at every step: a call that fails has mapped
\* nothing, one that succeeds the whole range, over any tables that failed
\* calls have left behind.
TranslatesTheAreas ==
  \A va \in Canonical :
    IF Claims(va) = {} THEN Translate(va) = Unmapped ELSE Claims(va) = {Translate(va)}

\* The second pass finds what the first has left: a table wherever it goes
\* down and an empty entry wherever it installs a leaf.
SecondPassIsPrepared ==
  pc = "second" => IF IsLeaf THEN entry[Here] = Empty ELSE entry[Here].kind = "table"
=============================================================================
