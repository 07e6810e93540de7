------------------------------ MODULE AcpiProofs ------------------------------
(***************************************************************************)
(* Proofs about Acpi, for whatever the firmware has left in memory: tables *)
(* of any number, in any order, with any entries, in order or not.         *)
(***************************************************************************)
EXTENDS Acpi, FiniteSetTheorems, TLAPS

AcpiSpec == AcpiInit /\ [][AcpiNext]_acpiVars

------------------------------------------------------------------------------
(* The invariant                                                           *)

Searching == {"_find_rsdp", "_install_xsdt", "_install_rsdt"}
\* Where the window holds the table that is parsed.
Parsing == {"count", "second", "third", "hpet"}
Others == {"FFFF", "APIC", "HPET", "parsed", "done"}

TypeInv == /\ fw \in Firmware
           /\ at \in (Searching \cup Parsing \cup Others) \X (Nat \ {0})

\* What the panics look at.
WindowInv ==
  /\ at[1] \in Searching => rootWindow = None
  /\ at[1] = "_find_rsdp" => \A k \in 1..(at[2] - 1) : ~fw.pointers[k].valid
  /\ IF at[1] \in Parsing THEN window \in 1..Len(Tables) ELSE window = None

Panics == {"RSDP not found", "RSDT invalid", "already mapped", "reserved mode"}
Reason(why) ==
  /\ why \in Panics /\ why # "already mapped"
  /\ why = "RSDP not found" => \A k \in DOMAIN fw.pointers : ~fw.pointers[k].valid
  /\ why = "RSDT invalid" => ~fw.rsdt.valid
  /\ why = "reserved mode" => \E k \in DOMAIN Madt : Is(Madt[k], {"override"}) /\ Madt[k].reserved

IInv == TypeInv /\ WindowInv /\ (acpiFault # None => Reason(acpiFault))

------------------------------------------------------------------------------
(* The tables                                                              *)

\* What the firmware left is a list of tables, each a list of entries.
LEMMA TablesAre ==
  ASSUME TypeInv
  PROVE  /\ fw.pointers \in Seq([valid : BOOLEAN, revision : Nat])
         /\ Tables \in Seq(Table)
         /\ \A k \in 1..Len(Tables) : Tables[k].entries \in Seq(Entries)
<1>1. fw \in FirmwareType
  BY FirmwareAssumption DEF TypeInv
<1>2. /\ fw.pointers \in Seq([valid : BOOLEAN, revision : Nat])
      /\ fw.xsdt.tables \in Seq(Table) /\ fw.rsdt.tables \in Seq(Table)
  BY <1>1 DEF FirmwareType
<1>3. Tables \in Seq(Table)
  BY <1>2 DEF Tables
<1>4. \A k \in 1..Len(Tables) : Tables[k].entries \in Seq(Entries)
  <2> SUFFICES ASSUME NEW k \in 1..Len(Tables)
               PROVE  Tables[k].entries \in Seq(Entries)
    OBVIOUS
  <2>1. Tables[k] \in Table
    BY <1>3
  <2> QED
    BY <2>1 DEF Table
<1> QED
  BY <1>2, <1>3, <1>4

\* A panic changes nothing else.
LEMMA PanicHolds ==
  ASSUME IInv, NEW why, AcpiPanic(why), Reason(why)
  PROVE  IInv'
<1>1. UNCHANGED <<fw, at, root, rootWindow, window, found>> /\ acpiFault' = why
  BY DEF AcpiPanic
<1>2. TypeInv' /\ WindowInv'
  BY <1>1 DEF IInv, TypeInv, WindowInv, Tables
<1>3. Reason(why)'
  BY <1>1 DEF Reason, Madt, Tables
<1> QED
  BY <1>1, <1>2, <1>3 DEF IInv

\* _find_table leaves nothing mapped, or the table that was looked for.
LEMMA FindTableHolds ==
  ASSUME IInv, acpiFault = None,
         NEW sign \in Others, NEW then \in (Parsing \cup Others) \X {1},
         NEW absent \in Others \X {1},
         then[1] \notin Parsing => \A k \in 1..Len(Tables) : ~Valid(Tables[k], sign),
         FindTable(sign, then, absent)
  PROVE  IInv'
<1>1. at[1] = sign /\ window = None /\ at[2] \in Nat \ {0}
  BY DEF IInv, TypeInv, WindowInv, FindTable, Others, Parsing
<1>2. UNCHANGED <<fw, root, rootWindow, found, acpiFault>>
  BY <1>1 DEF FindTable
<1>3. Tables' = Tables
  BY <1>2 DEF Tables
<1>4. CASE at[2] <= Len(Tables)
  <2>1. at[2] \in 1..Len(Tables)
    BY <1>1, <1>4, TablesAre DEF IInv
  <2>2. CASE Valid(Tables[at[2]], sign)
    <3>1. window' = at[2] /\ at' = then /\ then[1] \in Parsing
      BY <1>1, <1>4, <2>1, <2>2 DEF FindTable, Goto
    <3>2. TypeInv'
      BY <1>2, <3>1 DEF IInv, TypeInv
    <3>3. WindowInv'
      BY <1>3, <2>1, <3>1 DEF WindowInv, Parsing, Searching
    <3> QED
      BY <1>2, <3>2, <3>3 DEF IInv
  <2>3. CASE ~Valid(Tables[at[2]], sign)
    <3>1. window' = None /\ at' = <<sign, at[2] + 1>>
      BY <1>1, <1>4, <2>3 DEF FindTable, LeaveWindow, Goto
    <3>2. TypeInv'
      BY <1>1, <1>2, <3>1 DEF IInv, TypeInv
    <3>3. WindowInv'
      BY <3>1 DEF WindowInv, Parsing, Searching, Others
    <3> QED
      BY <1>2, <3>2, <3>3 DEF IInv
  <2> QED
    BY <2>2, <2>3
<1>5. CASE ~(at[2] <= Len(Tables))
  <2>1. window' = None /\ at' = absent
    BY <1>1, <1>5 DEF FindTable, Goto
  <2>2. TypeInv'
    BY <1>2, <2>1 DEF IInv, TypeInv
  <2>3. WindowInv'
    BY <2>1 DEF WindowInv, Parsing, Searching, Others
  <2> QED
    BY <1>2, <2>2, <2>3 DEF IInv
<1> QED
  BY <1>4, <1>5

\* The parsers keep their table mapped until they are through.
LEMMA ParseHolds ==
  ASSUME IInv, acpiFault = None,
         \/ CountEntry \/ EntriesCounted \/ SecondPass \/ SecondPassDone \/ ThirdPass
         \/ MadtParsed \/ BeginHpet \/ ParseHpet
  PROVE  IInv'
<1>1. at[2] \in Nat \ {0} /\ at = <<at[1], at[2]>>
  BY DEF IInv, TypeInv
<1>2. CASE SecondPass /\ \E k \in DOMAIN Madt : Is(Madt[k], {"override"}) /\ Madt[k].reserved
                      /\ AcpiPanic("reserved mode")
  <2>1. Reason("reserved mode")
    BY <1>2 DEF Reason, Panics
  <2> QED
    BY <1>2, <2>1, PanicHolds
<1>3. CASE \/ CountEntry \/ EntriesCounted \/ SecondPassDone \/ ThirdPass
           \/ (SecondPass /\ acpiFault' = None)
  <2>1. /\ at[1] \in Parsing /\ UNCHANGED <<fw, root, rootWindow, window, acpiFault>>
        /\ at' \in {<<"second", 1>>, <<"third", 1>>, <<at[1], at[2] + 1>>}
    <3>1. CASE CountEntry
      BY <3>1 DEF CountEntry, Next1, Goto, Parsing
    <3>5. CASE EntriesCounted
      BY <3>5 DEF EntriesCounted, Goto, Parsing
    <3>2. CASE SecondPassDone
      BY <3>2 DEF SecondPassDone, Goto, Parsing, found
    <3>3. CASE ThirdPass
      BY <3>3 DEF ThirdPass, Next1, Goto, Parsing
    <3>4. CASE SecondPass /\ acpiFault' = None
      <4>1. ~AcpiPanic("reserved mode")
        BY <3>4, FirmwareAssumption DEF AcpiPanic
      <4>2. /\ at[1] = "second" /\ at' = <<at[1], at[2] + 1>>
            /\ UNCHANGED <<fw, root, rootWindow, window, room, hpets, acpiFault>>
        BY <3>4, <4>1, Zenon DEF SecondPass, Next1, Goto
      <4> QED
        BY <4>2 DEF Parsing
    <3> QED
      BY <1>3, <3>1, <3>2, <3>3, <3>4, <3>5
  <2>2. TypeInv'
    BY <1>1, <2>1 DEF IInv, TypeInv, Parsing
  <2>3. WindowInv'
    BY <2>1 DEF IInv, WindowInv, Tables, Parsing, Searching
  <2> QED
    BY <2>1, <2>2, <2>3 DEF IInv
<1>4. CASE MadtParsed \/ BeginHpet \/ ParseHpet
  <2>1. /\ UNCHANGED <<fw, root, rootWindow, acpiFault>> /\ window' = None
        /\ at' \in Others \X {1}
    BY <1>4 DEF MadtParsed, BeginHpet, ParseHpet, Goto, Others, IInv, WindowInv, Parsing
  <2>2. TypeInv'
    BY <2>1 DEF IInv, TypeInv
  <2>3. WindowInv'
    BY <2>1 DEF WindowInv, Parsing, Searching, Others
  <2> QED
    BY <2>1, <2>2, <2>3 DEF IInv
<1>5. SecondPass => \/ acpiFault' = None
                    \/ /\ AcpiPanic("reserved mode")
                       /\ \E k \in DOMAIN Madt : Is(Madt[k], {"override"}) /\ Madt[k].reserved
  <2> SUFFICES ASSUME SecondPass, acpiFault' # None
               PROVE  /\ AcpiPanic("reserved mode")
                      /\ \E k \in DOMAIN Madt : Is(Madt[k], {"override"}) /\ Madt[k].reserved
    OBVIOUS
  <2>1. /\ AcpiPanic("reserved mode") /\ at[1] = "second" /\ at[2] <= Len(Madt)
        /\ Is(Madt[at[2]], {"override"}) /\ Madt[at[2]].reserved
    BY DEF SecondPass
  <2>2. Madt \in Seq(Entries)
    BY <2>1, TablesAre DEF IInv, WindowInv, Parsing, Madt
  <2>3. DOMAIN Madt = 1..Len(Madt) /\ Len(Madt) \in Nat
    BY <2>2
  <2>4. at[2] <= Len(Madt)
    BY <2>1
  <2>5. at[2] \in DOMAIN Madt
    <3>1. \A a \in Nat \ {0}, m \in Nat : a <= m => a \in 1..m
      OBVIOUS
    <3> QED
      BY <1>1, <2>3, <2>4, <3>1, Zenon
  <2> QED
    BY <2>1, <2>5
<1> QED
  BY <1>2, <1>3, <1>4, <1>5

\* The search for the root.
LEMMA RootHolds ==
  ASSUME IInv, acpiFault = None, FindRsdp \/ InstallXsdt \/ InstallRsdt
  PROVE  IInv'
<1>1. at[2] \in Nat \ {0} /\ at = <<at[1], at[2]>> /\ at[1] \in Searching
  <2>1. at[2] \in Nat \ {0} /\ at = <<at[1], at[2]>>
    BY DEF IInv, TypeInv
  <2>2. at[1] \in {"_find_rsdp", "_install_xsdt", "_install_rsdt"}
    BY Zenon DEF FindRsdp, InstallXsdt, InstallRsdt
  <2> QED
    BY <2>1, <2>2 DEF Searching
<1>2. rootWindow = None /\ window = None
  BY <1>1 DEF IInv, WindowInv, Searching, Parsing
<1>3. CASE FindRsdp
  <2>1. fw.pointers \in Seq([valid : BOOLEAN, revision : Nat]) /\ Len(fw.pointers) \in Nat
    BY TablesAre DEF IInv
  <2>2. CASE at[2] > Len(fw.pointers)
    <3>1. AcpiPanic("RSDP not found") /\ at[1] = "_find_rsdp"
      <4>1. ~(at[2] <= Len(fw.pointers))
        BY <1>1, <2>1, <2>2
      <4> QED
        BY <1>3, <4>1, Zenon DEF FindRsdp
    <3>2. \A k \in DOMAIN fw.pointers : ~fw.pointers[k].valid
      <4> SUFFICES ASSUME NEW k \in DOMAIN fw.pointers
                   PROVE  k \in 1..(at[2] - 1)
        BY <3>1 DEF IInv, WindowInv
      <4>1. k \in 1..Len(fw.pointers)
        BY <2>1
      <4> QED
        BY <1>1, <2>1, <2>2, <4>1
    <3>3. Reason("RSDP not found")
      BY <3>2 DEF Reason, Panics
    <3> QED
      BY <3>1, <3>3, PanicHolds
  <2>3. CASE ~(at[2] > Len(fw.pointers))
    <3>1. UNCHANGED <<fw, root, rootWindow, window, found, acpiFault>> /\ at[1] = "_find_rsdp"
      BY <1>1, <1>3, <2>1, <2>3 DEF FindRsdp
    <3>2. CASE fw.pointers[at[2]].valid
      <4>0. at' = <<IF fw.pointers[at[2]].revision # 0 THEN "_install_xsdt"
                    ELSE "_install_rsdt", 1>>
        BY <1>3, <2>3, <3>2, Zenon DEF FindRsdp, Goto
      <4>1. at' \in {"_install_xsdt", "_install_rsdt"} \X {1}
        BY <4>0
      <4>2. TypeInv'
        BY <3>1, <4>1 DEF IInv, TypeInv, Searching
      <4>3. WindowInv'
        BY <1>2, <3>1, <4>1 DEF WindowInv, Parsing, Searching
      <4> QED
        BY <3>1, <4>2, <4>3 DEF IInv
    <3>3. CASE ~fw.pointers[at[2]].valid
      <4>1. at' = <<"_find_rsdp", at[2] + 1>>
        BY <1>1, <1>3, <2>1, <2>3, <3>1, <3>3 DEF FindRsdp, Next1, Goto
      <4>2. TypeInv'
        BY <1>1, <3>1, <4>1 DEF IInv, TypeInv, Searching
      <4>3. \A k \in 1..at[2] : ~fw.pointers[k].valid
        BY <1>1, <3>1, <3>3 DEF IInv, WindowInv
      <4>4. WindowInv'
        BY <1>1, <1>2, <3>1, <4>1, <4>3 DEF WindowInv, Parsing, Searching
      <4> QED
        BY <3>1, <4>2, <4>4 DEF IInv
    <3> QED
      BY <3>2, <3>3
  <2> QED
    BY <2>2, <2>3
<1>4. CASE InstallXsdt
  <2>1. /\ UNCHANGED <<fw, window, found, acpiFault>>
        /\ \/ at' = <<"FFFF", 1>>
           \/ at' = <<"_install_rsdt", 1>> /\ UNCHANGED <<rootWindow, root>>
    BY <1>4 DEF InstallXsdt, Goto
  <2>2. TypeInv'
    BY <2>1 DEF IInv, TypeInv, Searching, Others
  <2>3. WindowInv'
    BY <1>2, <2>1 DEF WindowInv, Parsing, Searching
  <2> QED
    BY <2>1, <2>2, <2>3 DEF IInv
<1>5. CASE InstallRsdt
  <2>1. CASE ~fw.rsdt.valid
    <3>1. AcpiPanic("RSDT invalid")
      BY <1>2, <1>5, <2>1 DEF InstallRsdt
    <3>2. Reason("RSDT invalid")
      BY <2>1 DEF Reason, Panics
    <3> QED
      BY <3>1, <3>2, PanicHolds
  <2>2. CASE fw.rsdt.valid
    <3>1. UNCHANGED <<fw, window, found, acpiFault>> /\ at' = <<"FFFF", 1>>
      BY <1>2, <1>5, <2>2 DEF InstallRsdt, Goto
    <3>2. TypeInv'
      BY <3>1 DEF IInv, TypeInv, Others
    <3>3. WindowInv'
      BY <1>2, <3>1 DEF WindowInv, Parsing, Searching
    <3> QED
      BY <3>1, <3>2, <3>3 DEF IInv
  <2> QED
    BY <2>1, <2>2
<1> QED
  BY <1>3, <1>4, <1>5

\* Every step keeps the invariant.
LEMMA StepHolds ==
  ASSUME NoSuchTable, IInv, [AcpiNext]_acpiVars
  PROVE  IInv'
<1>1. CASE UNCHANGED acpiVars
  BY <1>1 DEF acpiVars, IInv, TypeInv, WindowInv, Reason, Tables, Madt
<1>2. CASE AcpiNext
  <2>1. acpiFault = None
    BY <1>2 DEF AcpiNext
  <2>2. CASE Initialize
    <3>1. \A k \in 1..Len(Tables) : ~Valid(Tables[k], "FFFF")
      BY DEF NoSuchTable, IInv, TypeInv, Tables, Valid
    <3> QED
      BY <2>1, <2>2, <3>1, FindTableHolds DEF Initialize, Others, Parsing
  <2>3. CASE FindMadt
    BY <2>1, <2>3, FindTableHolds DEF FindMadt, Others, Parsing
  <2>4. CASE FindHpet
    BY <2>1, <2>4, FindTableHolds DEF FindHpet, Others, Parsing
  <2>5. CASE FindRsdp \/ InstallXsdt \/ InstallRsdt
    BY <2>1, <2>5, RootHolds
  <2>6. CASE \/ CountEntry \/ EntriesCounted \/ SecondPass \/ SecondPassDone \/ ThirdPass
             \/ MadtParsed \/ BeginHpet \/ ParseHpet
    BY <2>1, <2>6, ParseHolds
  <2> QED
    BY <1>2, <2>2, <2>3, <2>4, <2>5, <2>6 DEF AcpiNext
<1> QED
  BY <1>1, <1>2

------------------------------------------------------------------------------
(* The theorems                                                            *)

\* Nothing is mapped at the window outside the parsers, and there it is a table of the root.
THEOREM Invariance == ASSUME NoSuchTable PROVE AcpiSpec => []IInv
<1>1. AcpiInit => IInv
  <2> SUFFICES ASSUME AcpiInit
               PROVE  IInv
    OBVIOUS
  <2>1. TypeInv
    BY DEF AcpiInit, TypeInv, Searching
  <2>2. WindowInv
    BY DEF AcpiInit, WindowInv, Parsing
  <2> QED
    BY <2>1, <2>2 DEF AcpiInit, IInv
<1>2. IInv /\ [AcpiNext]_acpiVars => IInv'
  BY StepHolds
<1> QED
  BY <1>1, <1>2, PTL DEF AcpiSpec

\* The search for tables and the parsers panic only where the firmware's tables are at fault.
THEOREM PanicsJustifiedHolds == ASSUME NoSuchTable PROVE AcpiSpec => []PanicsJustified
<1>1. IInv => PanicsJustified
  <2> SUFFICES ASSUME IInv
               PROVE  PanicsJustified
    OBVIOUS
  <2>1. CASE acpiFault = None
    BY <2>1, FirmwareAssumption DEF PanicsJustified
  <2>2. CASE acpiFault # None
    <3>1. Reason(acpiFault)
      BY <2>2 DEF IInv
    <3>2. acpiFault \in {"RSDP not found", "RSDT invalid", "reserved mode"}
      BY <3>1 DEF Reason, Panics
    <3>3. CASE acpiFault = "RSDP not found"
      BY <2>2, <3>1, <3>3, Zenon DEF PanicsJustified, Reason
    <3>4. CASE acpiFault = "RSDT invalid"
      BY <2>2, <3>1, <3>4, Zenon DEF PanicsJustified, Reason
    <3>5. CASE acpiFault = "reserved mode"
      BY <2>2, <3>1, <3>5, Zenon DEF PanicsJustified, Reason
    <3> QED
      BY <3>2, <3>3, <3>4, <3>5
  <2> QED
    BY <2>1, <2>2
<1> QED
  BY <1>1, Invariance, PTL

------------------------------------------------------------------------------
(* What parse_madt has taken from the entries before the one it is at      *)

ProcessorsIn(m, n) == {j \in 1..n : Is(m[j], Processors)}
CoreRecords == [acpi : Nat, apic : Nat, lapic : BOOLEAN, nmi : Nat \cup {None}]
\* The core of processor j when k entries have been searched for NMIs.
CoreIs(m, core, j, k) ==
  /\ core.acpi = m[j].acpi /\ core.apic = m[j].apic /\ (core.lapic <=> m[j].type = "lapic")
  /\ PinIs(m, j, k, core.nmi)
\* The cores of the first n entries: one for every enabled processor, in order.
CoresAre(m, cs, n, k) ==
  /\ cs \in Seq(CoreRecords) /\ Len(cs) = Cardinality(EnabledIn(m, n))
  /\ \A j \in EnabledIn(m, n) : CoreIs(m, cs[PlaceIn(m, j)], j, k)
  /\ \A p \in 1..Len(cs) : \E j \in EnabledIn(m, n) : PlaceIn(m, j) = p

MadtInv ==
  /\ at[1] \in Searching \cup {"FFFF", "APIC"} => room = 0
  /\ at[1] \in {"count", "second", "third"} => at[2] \in 1..(Len(Madt) + 1)
  /\ at[1] = "count" => room = Cardinality(ProcessorsIn(Madt, at[2] - 1))
  /\ at[1] \in {"second", "third"} => room = Cardinality(ProcessorsIn(Madt, Len(Madt)))
  /\ at[1] = "second" => CoresAre(Madt, cores, at[2] - 1, 0)
  /\ at[1] = "third" => CoresAre(Madt, cores, Len(Madt), at[2] - 1)

\* One entry more is one processor more, or none.
LEMMA ProcessorsGrow ==
  ASSUME NEW m, NEW n \in Nat
  PROVE  /\ IsFiniteSet(ProcessorsIn(m, n)) /\ Cardinality(ProcessorsIn(m, n)) \in Nat
         /\ Cardinality(ProcessorsIn(m, 0)) = 0
         /\ Is(m[n + 1], Processors) =>
              Cardinality(ProcessorsIn(m, n + 1)) = Cardinality(ProcessorsIn(m, n)) + 1
         /\ ~Is(m[n + 1], Processors) => ProcessorsIn(m, n + 1) = ProcessorsIn(m, n)
<1>1. IsFiniteSet(ProcessorsIn(m, n)) /\ Cardinality(ProcessorsIn(m, n)) \in Nat
  <2>1. ProcessorsIn(m, n) \in SUBSET (1..n) /\ IsFiniteSet(1..n)
    BY FS_Interval DEF ProcessorsIn
  <2> QED
    BY <2>1, FS_Subset, FS_CardinalityType
<1>2. ProcessorsIn(m, 0) = {}
  BY DEF ProcessorsIn
<1>3. ASSUME Is(m[n + 1], Processors)
      PROVE  Cardinality(ProcessorsIn(m, n + 1)) = Cardinality(ProcessorsIn(m, n)) + 1
  <2>1. ProcessorsIn(m, n + 1) = ProcessorsIn(m, n) \cup {n + 1} /\ n + 1 \notin ProcessorsIn(m, n)
    BY <1>3 DEF ProcessorsIn
  <2> QED
    BY <1>1, <2>1, FS_AddElement
<1>4. ~Is(m[n + 1], Processors) => ProcessorsIn(m, n + 1) = ProcessorsIn(m, n)
  <2> SUFFICES ASSUME ~Is(m[n + 1], Processors)
               PROVE  \A j \in 1..(n + 1) : Is(m[j], Processors) => j \in 1..n
    BY DEF ProcessorsIn
  <2> QED
    OBVIOUS
<1> QED
  BY <1>1, <1>2, <1>3, <1>4, FS_EmptySet

\* The same for the enabled ones, of which there are not more.
LEMMA EnabledGrow ==
  ASSUME NEW m, NEW n \in Nat
  PROVE  /\ IsFiniteSet(EnabledIn(m, n)) /\ Cardinality(EnabledIn(m, n)) \in Nat
         /\ EnabledIn(m, 0) = {} /\ Cardinality(EnabledIn(m, 0)) = 0
         /\ Is(m[n + 1], Processors) /\ m[n + 1].enabled =>
              /\ EnabledIn(m, n + 1) = EnabledIn(m, n) \cup {n + 1}
              /\ Cardinality(EnabledIn(m, n + 1)) = Cardinality(EnabledIn(m, n)) + 1
         /\ ~(Is(m[n + 1], Processors) /\ m[n + 1].enabled) =>
              EnabledIn(m, n + 1) = EnabledIn(m, n)
         /\ Cardinality(EnabledIn(m, n)) <= Cardinality(ProcessorsIn(m, n))
<1>1. IsFiniteSet(EnabledIn(m, n)) /\ Cardinality(EnabledIn(m, n)) \in Nat
  <2>1. EnabledIn(m, n) \in SUBSET (1..n) /\ IsFiniteSet(1..n)
    BY FS_Interval DEF EnabledIn
  <2> QED
    BY <2>1, FS_Subset, FS_CardinalityType
<1>2. EnabledIn(m, 0) = {}
  BY DEF EnabledIn
<1>3. ASSUME Is(m[n + 1], Processors) /\ m[n + 1].enabled
      PROVE  /\ EnabledIn(m, n + 1) = EnabledIn(m, n) \cup {n + 1}
             /\ Cardinality(EnabledIn(m, n + 1)) = Cardinality(EnabledIn(m, n)) + 1
  <2>1. EnabledIn(m, n + 1) = EnabledIn(m, n) \cup {n + 1} /\ n + 1 \notin EnabledIn(m, n)
    BY <1>3 DEF EnabledIn
  <2> QED
    BY <1>1, <2>1, FS_AddElement
<1>4. ~(Is(m[n + 1], Processors) /\ m[n + 1].enabled) => EnabledIn(m, n + 1) = EnabledIn(m, n)
  <2> SUFFICES ASSUME ~(Is(m[n + 1], Processors) /\ m[n + 1].enabled)
               PROVE  \A j \in 1..(n + 1) : Is(m[j], Processors) /\ m[j].enabled => j \in 1..n
    BY DEF EnabledIn
  <2> QED
    OBVIOUS
<1>5. Cardinality(EnabledIn(m, n)) <= Cardinality(ProcessorsIn(m, n))
  <2>1. EnabledIn(m, n) \in SUBSET ProcessorsIn(m, n)
    BY DEF EnabledIn, ProcessorsIn
  <2> QED
    BY <2>1, ProcessorsGrow, FS_Subset
<1> QED
  BY <1>1, <1>2, <1>3, <1>4, <1>5, FS_EmptySet

\* The place of an enabled processor is one of the cores.
LEMMA Places ==
  ASSUME NEW m, NEW n \in Nat, NEW j \in EnabledIn(m, n)
  PROVE  PlaceIn(m, j) \in 1..Cardinality(EnabledIn(m, n)) /\ j \in 1..n
<1>1. j \in 1..n /\ j \in Nat /\ EnabledIn(m, j) \in SUBSET EnabledIn(m, n)
      /\ j \in EnabledIn(m, j)
  BY DEF EnabledIn
<1>2. /\ IsFiniteSet(EnabledIn(m, j)) /\ Cardinality(EnabledIn(m, j)) \in Nat
      /\ IsFiniteSet(EnabledIn(m, n)) /\ Cardinality(EnabledIn(m, n)) \in Nat
  BY <1>1, EnabledGrow
<1>3. Cardinality(EnabledIn(m, j)) # 0
  BY <1>1, <1>2, FS_EmptySet
<1>4. Cardinality(EnabledIn(m, j)) <= Cardinality(EnabledIn(m, n))
  BY <1>1, <1>2, FS_Subset
<1> QED
  BY <1>1, <1>2, <1>3, <1>4 DEF PlaceIn

\* A NMI entry that addresses processor j sets its pin; another one leaves it.
LEMMA PinsGrow ==
  ASSUME NEW m, NEW j, NEW k \in Nat, NEW pin, PinIs(m, j, k, pin)
  PROVE  /\ Is(m[k + 1], Nmis) /\ Addresses(m[k + 1], m[j]) => PinIs(m, j, k + 1, m[k + 1].pin)
         /\ ~(Is(m[k + 1], Nmis) /\ Addresses(m[k + 1], m[j])) => PinIs(m, j, k + 1, pin)
<1>1. ASSUME Is(m[k + 1], Nmis) /\ Addresses(m[k + 1], m[j])
      PROVE  PinIs(m, j, k + 1, m[k + 1].pin)
  <2>1. k + 1 \in NmisFor(m, j, k + 1) /\ \A h \in NmisFor(m, j, k + 1) : h <= k + 1
    BY <1>1 DEF NmisFor
  <2> QED
    BY <2>1 DEF PinIs
<1>2. ASSUME ~(Is(m[k + 1], Nmis) /\ Addresses(m[k + 1], m[j]))
      PROVE  PinIs(m, j, k + 1, pin)
  <2>1. \A i \in 1..(k + 1) : Is(m[i], Nmis) /\ Addresses(m[i], m[j]) <=>
                              Is(m[i], Nmis) /\ Addresses(m[i], m[j]) /\ i \in 1..k
    BY <1>2
  <2>2. NmisFor(m, j, k + 1) = NmisFor(m, j, k)
    BY <2>1 DEF NmisFor
  <2> QED
    BY <2>2 DEF PinIs
<1> QED
  BY <1>1, <1>2

\* The second pass appends the core of an enabled processor.
LEMMA CoreAppended ==
  ASSUME NEW m, NEW cs, NEW n \in Nat, CoresAre(m, cs, n, 0), m[n + 1] \in Entries
  PROVE  /\ Is(m[n + 1], Processors) /\ m[n + 1].enabled =>
              CoresAre(m, Append(cs, Core(m[n + 1])), n + 1, 0)
         /\ ~(Is(m[n + 1], Processors) /\ m[n + 1].enabled) => CoresAre(m, cs, n + 1, 0)
<1>1. ASSUME Is(m[n + 1], Processors) /\ m[n + 1].enabled
      PROVE  CoresAre(m, Append(cs, Core(m[n + 1])), n + 1, 0)
  <2> DEFINE new == Core(m[n + 1])
             ds == Append(cs, new)
  <2>1. new \in CoreRecords /\ CoreIs(m, new, n + 1, 0)
    <3>1. m[n + 1].acpi \in Nat /\ m[n + 1].apic \in Nat
      BY <1>1 DEF Entries, Is, Processors
    <3>2. NmisFor(m, n + 1, 0) = {}
      BY DEF NmisFor
    <3> QED
      BY <3>1, <3>2 DEF Core, CoreRecords, CoreIs, PinIs
  <2> HIDE DEF new
  <2>2. cs \in Seq(CoreRecords) /\ Len(cs) = Cardinality(EnabledIn(m, n)) /\ Len(cs) \in Nat
    BY DEF CoresAre
  <2>3. /\ ds \in Seq(CoreRecords) /\ Len(ds) = Len(cs) + 1 /\ ds[Len(cs) + 1] = new
        /\ \A p \in 1..Len(cs) : ds[p] = cs[p]
    BY <2>1, <2>2
  <2>4. /\ EnabledIn(m, n + 1) = EnabledIn(m, n) \cup {n + 1}
        /\ Cardinality(EnabledIn(m, n + 1)) = Cardinality(EnabledIn(m, n)) + 1
    BY <1>1, EnabledGrow
  <2>5. PlaceIn(m, n + 1) = Len(cs) + 1
    BY <2>2, <2>4 DEF PlaceIn
  <2> HIDE DEF ds
  <2>6. \A j \in EnabledIn(m, n + 1) : CoreIs(m, ds[PlaceIn(m, j)], j, 0)
    <3>1. ASSUME NEW j \in EnabledIn(m, n)
          PROVE  CoreIs(m, ds[PlaceIn(m, j)], j, 0)
      <4>1. PlaceIn(m, j) \in 1..Len(cs)
        BY <2>2, Places
      <4>2. CoreIs(m, cs[PlaceIn(m, j)], j, 0)
        BY DEF CoresAre
      <4> QED
        BY <2>3, <4>1, <4>2
    <3>2. CoreIs(m, ds[PlaceIn(m, n + 1)], n + 1, 0)
      BY <2>1, <2>3, <2>5
    <3> QED
      BY <2>4, <3>1, <3>2
  <2>7. \A p \in 1..Len(ds) : \E j \in EnabledIn(m, n + 1) : PlaceIn(m, j) = p
    <3> SUFFICES ASSUME NEW p \in 1..Len(ds)
                 PROVE  \E j \in EnabledIn(m, n + 1) : PlaceIn(m, j) = p
      OBVIOUS
    <3>1. p \in 1..Len(cs) \/ p = Len(cs) + 1
      BY <2>2, <2>3
    <3>2. p \in 1..Len(cs) => \E j \in EnabledIn(m, n) : PlaceIn(m, j) = p
      BY DEF CoresAre
    <3> QED
      BY <2>4, <2>5, <3>1, <3>2
  <2> QED
    BY <2>2, <2>3, <2>4, <2>6, <2>7 DEF ds, new, CoresAre
<1>2. ASSUME ~(Is(m[n + 1], Processors) /\ m[n + 1].enabled)
      PROVE  CoresAre(m, cs, n + 1, 0)
  <2>1. EnabledIn(m, n + 1) = EnabledIn(m, n)
    BY <1>2, EnabledGrow
  <2> QED
    BY <2>1 DEF CoresAre
<1> QED
  BY <1>1, <1>2

\* The third pass sets the pin of the cores that an NMI entry addresses, and of no other.
LEMMA NmisSet ==
  ASSUME NEW m, NEW cs, NEW n \in Nat, NEW k \in Nat, CoresAre(m, cs, n, k),
         n = Len(m), ProperIds(m), m[k + 1] \in Entries
  PROVE  CoresAre(m, IF Is(m[k + 1], Nmis) THEN SetNmis(cs, m[k + 1]) ELSE cs, n, k + 1)
<1>1. CASE ~Is(m[k + 1], Nmis)
  <2>1. \A j \in EnabledIn(m, n) : CoreIs(m, cs[PlaceIn(m, j)], j, k + 1)
    BY <1>1, PinsGrow DEF CoresAre, CoreIs
  <2> QED
    BY <1>1, <2>1 DEF CoresAre
<1>2. CASE Is(m[k + 1], Nmis)
  <2> DEFINE e == m[k + 1]
             Hit(p) == \/ e.acpi = All /\ (e.type = "x2apic nmi" \/ cs[p].lapic)
                       \/ /\ e.acpi # All /\ cs[p].acpi = e.acpi
                          /\ \A q \in 1..(p - 1) : cs[q].acpi # e.acpi
             ds == SetNmis(cs, e)
  <2>1. e.pin \in Nat /\ e.type \in {"lapic nmi", "x2apic nmi"}
    BY <1>2 DEF Entries, Is, Nmis
  <2>2. cs \in Seq(CoreRecords) /\ Len(cs) \in Nat /\ Len(cs) = Cardinality(EnabledIn(m, n))
    BY DEF CoresAre
  <2>3. ds = [p \in 1..Len(cs) |-> IF Hit(p) THEN [cs[p] EXCEPT !.nmi = e.pin] ELSE cs[p]]
    BY DEF SetNmis
  <2> HIDE DEF ds, e, Hit
  <2>4. \A p \in 1..Len(cs) : /\ cs[p] \in CoreRecords
                              /\ [cs[p] EXCEPT !.nmi = e.pin] \in CoreRecords
    <3> SUFFICES ASSUME NEW p \in 1..Len(cs)
                 PROVE  cs[p] \in CoreRecords /\ [cs[p] EXCEPT !.nmi = e.pin] \in CoreRecords
      OBVIOUS
    <3>1. cs[p] \in CoreRecords
      BY <2>2
    <3>2. \A c \in CoreRecords, v \in Nat : [c EXCEPT !.nmi = v] \in CoreRecords
      BY DEF CoreRecords
    <3> QED
      BY <2>1, <3>1, <3>2
  <2>5. ds \in Seq(CoreRecords) /\ Len(ds) = Len(cs)
    <3>1. ds \in [1..Len(cs) -> CoreRecords]
      BY <2>3, <2>4
    <3> QED
      BY <2>2, <3>1
  <2>6. ASSUME NEW p \in 1..Len(cs)
        PROVE  /\ ds[p].acpi = cs[p].acpi /\ ds[p].apic = cs[p].apic /\ ds[p].lapic = cs[p].lapic
               /\ Hit(p) => ds[p].nmi = e.pin
               /\ ~Hit(p) => ds[p].nmi = cs[p].nmi
    BY <2>3, <2>4 DEF CoreRecords
  <2>7. ASSUME NEW j \in EnabledIn(m, n)
        PROVE  CoreIs(m, ds[PlaceIn(m, j)], j, k + 1)
    <3> DEFINE p == PlaceIn(m, j)
    <3>1. p \in 1..Len(cs) /\ CoreIs(m, cs[p], j, k)
      BY <2>2, Places DEF CoresAre
    <3>2. m[j].acpi # All
      BY DEF ProperIds
    <3>3. \A q \in 1..Len(cs) : cs[q].acpi = m[j].acpi => q = p
      <4> SUFFICES ASSUME NEW q \in 1..Len(cs), cs[q].acpi = m[j].acpi
                   PROVE  q = p
        OBVIOUS
      <4>1. PICK i \in EnabledIn(m, n) : PlaceIn(m, i) = q
        BY DEF CoresAre
      <4>2. cs[q].acpi = m[i].acpi
        BY <4>1 DEF CoresAre, CoreIs
      <4>3. i = j
        BY <4>2 DEF ProperIds
      <4> QED
        BY <4>1, <4>3
    <3>4. Hit(p) <=> Addresses(e, m[j])
      <4>1. cs[p].acpi = m[j].acpi /\ (cs[p].lapic <=> m[j].type = "lapic")
        BY <3>1 DEF CoreIs
      <4>2. CASE e.acpi = All
        BY <3>2, <4>1, <4>2 DEF Hit, Addresses
      <4>3. CASE e.acpi # All
        <5>1. m[j].acpi = e.acpi => \A q \in 1..(p - 1) : cs[q].acpi # e.acpi
          BY <2>2, <3>1, <3>3
        <5> QED
          BY <4>1, <4>3, <5>1 DEF Hit, Addresses
      <4> QED
        BY <4>2, <4>3
    <3>5. PinIs(m, j, k, cs[p].nmi)
      BY <3>1 DEF CoreIs
    <3>6. PinIs(m, j, k + 1, ds[p].nmi)
      <4>1. CASE Hit(p)
        <5>1. ds[p].nmi = e.pin /\ Addresses(e, m[j])
          BY <2>6, <3>1, <3>4, <4>1
        <5>2. PinIs(m, j, k + 1, e.pin)
          BY <1>2, <3>5, <5>1, PinsGrow DEF e
        <5> QED
          BY <5>1, <5>2
      <4>2. CASE ~Hit(p)
        <5>1. ds[p].nmi = cs[p].nmi /\ ~Addresses(e, m[j])
          BY <2>6, <3>1, <3>4, <4>2
        <5>2. PinIs(m, j, k + 1, cs[p].nmi)
          BY <3>5, <5>1, PinsGrow DEF e
        <5> QED
          BY <5>1, <5>2
      <4> QED
        BY <4>1, <4>2
    <3> HIDE DEF p
    <3>7. /\ ds[p].acpi = m[j].acpi /\ ds[p].apic = m[j].apic
          /\ (ds[p].lapic <=> m[j].type = "lapic")
      BY <2>6, <3>1 DEF CoreIs
    <3> QED
      BY <3>6, <3>7 DEF CoreIs, p
  <2>8. \A p \in 1..Len(ds) : \E j \in EnabledIn(m, n) : PlaceIn(m, j) = p
    BY <2>5 DEF CoresAre
  <2>9. CoresAre(m, ds, n, k + 1)
    BY <2>2, <2>5, <2>7, <2>8 DEF CoresAre
  <2> QED
    BY <1>2, <2>9 DEF ds, e
<1> QED
  BY <1>1, <1>2

\* Where parse_madt is, its table is one of a firmware whose ids are proper.
LEMMA MadtIs ==
  ASSUME ProperTables, IInv, at[1] \in {"count", "second", "third"}
  PROVE  Madt \in Seq(Entries) /\ Len(Madt) \in Nat /\ ProperIds(Madt)
         /\ \A k \in 1..Len(Madt) : Madt[k] \in Entries
<1>1. window \in 1..Len(Tables) /\ fw \in Firmware
  BY DEF IInv, WindowInv, TypeInv, Parsing
<1>2. Madt \in Seq(Entries)
  BY <1>1, TablesAre DEF IInv, Madt
<1>3. ProperIds(Madt)
  BY <1>1, Zenon DEF ProperTables, Tables, Madt
<1> QED
  BY <1>2, <1>3

\* Every step keeps what parse_madt knows.
LEMMA MadtHolds ==
  ASSUME ProperTables, IInv, MadtInv, [AcpiNext]_acpiVars
  PROVE  MadtInv'
<1> USE DEF Goto, Next1
<1>1. at[2] \in Nat \ {0} /\ at = <<at[1], at[2]>>
  BY DEF IInv, TypeInv
<1>2. CASE UNCHANGED acpiVars \/ \E why : AcpiPanic(why)
  <2>1. at' = at /\ room' = room /\ cores' = cores /\ Madt' = Madt
    BY <1>2 DEF acpiVars, AcpiPanic, found, Madt, Tables
  <2> QED
    BY <2>1 DEF MadtInv
<1>3. CASE FindRsdp \/ InstallXsdt \/ InstallRsdt \/ Initialize
  <2>1. CASE \E why : AcpiPanic(why)
    BY <1>2, <2>1
  <2>2. CASE ~\E why : AcpiPanic(why)
    <3>1. /\ at[1] \in Searching \cup {"FFFF", "APIC"} /\ room' = room
          /\ at'[1] \in Searching \cup {"FFFF", "APIC"}
      <4>1. CASE FindRsdp
        <5>1. ~AcpiPanic("RSDP not found")
          BY <2>2
        <5>2. /\ at[1] = "_find_rsdp" /\ UNCHANGED found
              /\ \/ \E s \in {"_install_xsdt", "_install_rsdt"} : at' = <<s, 1>>
                 \/ at' = <<at[1], at[2] + 1>>
          BY <4>1, <5>1, Zenon DEF FindRsdp
        <5> QED
          BY <5>2 DEF found, Searching
      <4>2. CASE InstallXsdt
        BY <2>2, <4>2 DEF InstallXsdt, found, Searching
      <4>3. CASE InstallRsdt
        <5>1. ~AcpiPanic("already mapped") /\ ~AcpiPanic("RSDT invalid")
          BY <2>2
        <5>2. at[1] = "_install_rsdt" /\ UNCHANGED found /\ at' = <<"FFFF", 1>>
          BY <4>3, <5>1, Zenon DEF InstallRsdt
        <5> QED
          BY <5>2 DEF found, Searching
      <4>4. CASE Initialize
        <5>1. ~AcpiPanic("already mapped")
          BY <2>2
        <5>2. /\ at[1] = "FFFF" /\ UNCHANGED found
              /\ at' = <<"APIC", 1>> \/ at' = <<"FFFF", at[2] + 1>>
          BY <4>4, <5>1, Zenon DEF Initialize, FindTable, LeaveWindow
        <5> QED
          BY <5>2 DEF found
      <4> QED
        BY <1>3, <4>1, <4>2, <4>3, <4>4
    <3> QED
      BY <3>1 DEF MadtInv, Searching
  <2> QED
    BY <2>1, <2>2
<1>4. CASE FindMadt
  <2>1. CASE \E why : AcpiPanic(why)
    BY <1>2, <2>1
  <2>2. CASE ~\E why : AcpiPanic(why)
    <3>1. /\ at[1] = "APIC" /\ room' = room /\ Tables' = Tables
          /\ \/ at' = <<"count", 1>> /\ at[2] <= Len(Tables) /\ window' = at[2]
             \/ at'[1] \in {"APIC", "parsed"}
      <4>1. ~AcpiPanic("already mapped")
        BY <2>2
      <4>2. /\ at[1] = "APIC" /\ UNCHANGED <<fw, root>> /\ UNCHANGED found
            /\ \/ at' = <<"count", 1>> /\ at[2] <= Len(Tables) /\ window' = at[2]
               \/ at' = <<"APIC", at[2] + 1>>
               \/ at' = <<"parsed", 1>>
        BY <1>4, <4>1 DEF FindMadt, FindTable, LeaveWindow
      <4> QED
        BY <4>2 DEF found, Tables
    <3>2. room' = 0
      BY <3>1 DEF MadtInv
    <3>3. CASE at'[1] \in {"APIC", "parsed"}
      BY <3>2, <3>3 DEF MadtInv, Searching
    <3>4. CASE at' = <<"count", 1>> /\ at[2] <= Len(Tables) /\ window' = at[2]
      <4>1. at[2] \in 1..Len(Tables)
        BY <1>1, <3>4, TablesAre DEF IInv
      <4>2. Madt' \in Seq(Entries)
        BY <3>1, <3>4, <4>1, TablesAre DEF IInv, Madt
      <4>3. Cardinality(ProcessorsIn(Madt', 0)) = 0 /\ Len(Madt') \in Nat
        BY <4>2, ProcessorsGrow
      <4> QED
        BY <3>2, <3>4, <4>3 DEF MadtInv, Searching
    <3> QED
      BY <3>1, <3>3, <3>4
  <2> QED
    BY <2>1, <2>2
<1>5. CASE CountEntry \/ EntriesCounted \/ SecondPassDone \/ SecondPass \/ ThirdPass
  <2>1. CASE \E why : AcpiPanic(why)
    BY <1>2, <2>1
  <2>2. CASE ~\E why : AcpiPanic(why)
    <3>1. /\ at[1] \in {"count", "second", "third"}
          /\ UNCHANGED <<fw, root, window>>
      <4>1. CASE CountEntry \/ EntriesCounted \/ SecondPassDone \/ ThirdPass
        BY <4>1 DEF CountEntry, EntriesCounted, SecondPassDone, ThirdPass
      <4>2. CASE SecondPass
        BY <2>2, <4>2 DEF SecondPass
      <4> QED
        BY <1>5, <4>1, <4>2
    <3>2. Madt' = Madt
      BY <3>1 DEF Madt, Tables
    <3>3. PICK m, n, k : /\ m = Madt /\ n = Len(m) /\ n \in Nat /\ k \in Nat /\ k = at[2] - 1
                         /\ at[2] = k + 1
      BY <1>1, <3>1, MadtIs
    <3>4. /\ m \in Seq(Entries) /\ ProperIds(m) /\ \A j \in 1..n : m[j] \in Entries
      BY <3>1, <3>3, MadtIs
    <3>5. CASE CountEntry
      <4>1. /\ at[1] = "count" /\ k + 1 <= n /\ at' = <<"count", k + 2>>
            /\ room' = IF Is(m[k + 1], Processors) THEN room + 1 ELSE room
        BY <3>3, <3>5 DEF CountEntry
      <4>2. room = Cardinality(ProcessorsIn(m, k))
        BY <3>3, <4>1 DEF MadtInv
      <4>3. room' = Cardinality(ProcessorsIn(m, k + 1))
        BY <3>3, <4>1, <4>2, ProcessorsGrow
      <4>4. at'[1] = "count" /\ at'[2] \in 1..(n + 1) /\ at'[2] - 1 = k + 1
        <5>1. at' = <<"count", k + 2>> /\ k + 1 <= n
          BY <4>1
        <5>2. k + 2 \in 1..(n + 1) /\ (k + 2) - 1 = k + 1
          BY <3>3, <5>1
        <5> QED
          BY <5>1, <5>2
      <4> QED
        BY <3>2, <3>3, <4>3, <4>4 DEF MadtInv, Searching
    <3>6. CASE EntriesCounted
      <4>1. /\ at[1] = "count" /\ k + 1 > n /\ at' = <<"second", 1>> /\ room' = room
            /\ cores' = <<>>
        BY <3>3, <3>6 DEF EntriesCounted
      <4>2. k <= n /\ room = Cardinality(ProcessorsIn(m, k))
        BY <3>3, <4>1 DEF MadtInv
      <4>3. room' = Cardinality(ProcessorsIn(m, n))
        <5>1. k = n
          BY <3>3, <4>1, <4>2
        <5> QED
          BY <4>1, <4>2, <5>1
      <4>4. CoresAre(m, <<>>, 0, 0)
        BY EnabledGrow DEF CoresAre
      <4>5. at'[1] = "second" /\ at'[2] \in 1..(n + 1) /\ at'[2] - 1 = 0
        BY <3>3, <4>1
      <4> QED
        BY <3>2, <3>3, <4>1, <4>3, <4>4, <4>5 DEF MadtInv, Searching
    <3>7. CASE SecondPass
      <4>1. /\ at[1] = "second" /\ k + 1 <= n /\ at' = <<"second", k + 2>> /\ room' = room
            /\ cores' = IF Is(m[k + 1], Processors) /\ m[k + 1].enabled
                        THEN Append(cores, Core(m[k + 1])) ELSE cores
        <5>1. ~AcpiPanic("reserved mode")
          BY <2>2
        <5>2. /\ at[1] = "second" /\ at[2] <= Len(Madt) /\ at' = <<at[1], at[2] + 1>>
              /\ UNCHANGED <<fw, root, rootWindow, window, room, hpets, acpiFault>>
              /\ cores' = IF Is(Madt[at[2]], Processors) /\ Madt[at[2]].enabled
                          THEN Append(cores, Core(Madt[at[2]])) ELSE cores
          BY <3>7, <5>1, Zenon DEF SecondPass
        <5> QED
          BY <3>3, <5>2
      <4>2. CoresAre(m, cores, k, 0) /\ room = Cardinality(ProcessorsIn(m, n))
        BY <3>3, <4>1 DEF MadtInv
      <4>3. m[k + 1] \in Entries
        BY <3>3, <3>4, <4>1
      <4>4. CoresAre(m, cores', k + 1, 0)
        BY <3>3, <4>1, <4>2, <4>3, CoreAppended
      <4>5. at'[1] = "second" /\ at'[2] \in 1..(n + 1) /\ at'[2] - 1 = k + 1
        <5>1. at' = <<"second", k + 2>> /\ k + 1 <= n
          BY <4>1
        <5>2. k + 2 \in 1..(n + 1) /\ (k + 2) - 1 = k + 1
          BY <3>3, <5>1
        <5> QED
          BY <5>1, <5>2
      <4> QED
        BY <3>2, <3>3, <4>1, <4>2, <4>4, <4>5 DEF MadtInv, Searching
    <3>8. CASE SecondPassDone
      <4>1. /\ at[1] = "second" /\ k + 1 > n /\ at' = <<"third", 1>> /\ room' = room
            /\ cores' = cores
        BY <3>3, <3>8 DEF SecondPassDone, found
      <4>2. k <= n /\ CoresAre(m, cores, k, 0) /\ room = Cardinality(ProcessorsIn(m, n))
        BY <3>3, <4>1 DEF MadtInv
      <4>3. CoresAre(m, cores, n, 0)
        BY <3>3, <4>1, <4>2
      <4>4. at'[1] = "third" /\ at'[2] \in 1..(n + 1) /\ at'[2] - 1 = 0
        BY <3>3, <4>1
      <4> QED
        BY <3>2, <3>3, <4>1, <4>2, <4>3, <4>4 DEF MadtInv, Searching
    <3>9. CASE ThirdPass
      <4>1. /\ at[1] = "third" /\ k + 1 <= n /\ at' = <<"third", k + 2>> /\ room' = room
            /\ cores' = IF Is(m[k + 1], Nmis) THEN SetNmis(cores, m[k + 1]) ELSE cores
        BY <3>3, <3>9 DEF ThirdPass
      <4>2. CoresAre(m, cores, n, k) /\ room = Cardinality(ProcessorsIn(m, n))
        BY <3>3, <4>1 DEF MadtInv
      <4>3. m[k + 1] \in Entries
        BY <3>3, <3>4, <4>1
      <4>4. CoresAre(m, cores', n, k + 1)
        BY <3>3, <3>4, <4>1, <4>2, <4>3, NmisSet
      <4>5. at'[1] = "third" /\ at'[2] \in 1..(n + 1) /\ at'[2] - 1 = k + 1
        <5>1. at' = <<"third", k + 2>> /\ k + 1 <= n
          BY <4>1
        <5>2. k + 2 \in 1..(n + 1) /\ (k + 2) - 1 = k + 1
          BY <3>3, <5>1
        <5> QED
          BY <5>1, <5>2
      <4> QED
        BY <3>2, <3>3, <4>1, <4>2, <4>4, <4>5 DEF MadtInv, Searching
    <3> QED
      BY <1>5, <3>5, <3>6, <3>7, <3>8, <3>9
  <2> QED
    BY <2>1, <2>2
<1>6. CASE MadtParsed \/ FindHpet \/ BeginHpet \/ ParseHpet
  <2>1. CASE \E why : AcpiPanic(why)
    BY <1>2, <2>1
  <2>2. CASE ~\E why : AcpiPanic(why)
    <3>1. at'[1] \in {"parsed", "HPET", "hpet", "done"}
      <4>1. CASE FindHpet
        <5>1. ~AcpiPanic("already mapped")
          BY <2>2
        <5>2. \E p : at' = <<"hpet", p>> \/ at' = <<"HPET", p>> \/ at' = <<"done", p>>
          BY <4>1, <5>1, Zenon DEF FindHpet, FindTable, LeaveWindow
        <5> QED
          BY <5>2
      <4>2. CASE MadtParsed \/ BeginHpet \/ ParseHpet
        BY <4>2 DEF MadtParsed, BeginHpet, ParseHpet
      <4> QED
        BY <1>6, <4>1, <4>2
    <3> QED
      BY <3>1 DEF MadtInv, Searching
  <2> QED
    BY <2>1, <2>2
<1> QED
  BY <1>2, <1>3, <1>4, <1>5, <1>6 DEF AcpiNext

\* The cores that parse_madt finds are the enabled processors, in order, in the memory taken
\* for them, each with the pin of the last NMI entry for it.
THEOREM ParsedAsWrittenHolds ==
  ASSUME NoSuchTable, ProperTables
  PROVE  AcpiSpec => []ParsedAsWritten
<1>1. AcpiInit => MadtInv
  BY DEF AcpiInit, MadtInv, Searching
<1>2. IInv /\ MadtInv /\ [AcpiNext]_acpiVars => MadtInv'
  BY MadtHolds
<1>3. IInv /\ MadtInv => ParsedAsWritten
  <2> SUFFICES ASSUME IInv, MadtInv, at[1] = "third", at[2] > Len(Madt)
               PROVE  /\ Len(cores) = Cardinality(EnabledIn(Madt, Len(Madt)))
                      /\ Len(cores) <= room
                      /\ \A j \in EnabledIn(Madt, Len(Madt)) :
                           CoreIs(Madt, cores[PlaceIn(Madt, j)], j, Len(Madt))
    BY DEF ParsedAsWritten, CoreIs
  <2>1. PICK m, n : m = Madt /\ n = Len(m) /\ n \in Nat
    BY MadtIs
  <2>2. at[2] \in Nat /\ at[2] - 1 = n
    BY <2>1 DEF MadtInv
  <2>3. CoresAre(m, cores, n, n) /\ room = Cardinality(ProcessorsIn(m, n))
    BY <2>1, <2>2 DEF MadtInv
  <2>4. Cardinality(EnabledIn(m, n)) <= Cardinality(ProcessorsIn(m, n))
    BY <2>1, EnabledGrow
  <2> QED
    BY <2>1, <2>3, <2>4 DEF CoresAre
<1> QED
  BY <1>1, <1>2, <1>3, Invariance, PTL DEF AcpiSpec
==============================================================================
