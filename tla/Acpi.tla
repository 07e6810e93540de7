--------------------------------- MODULE Acpi ---------------------------------
(***************************************************************************)
(* The ACPI tables (src/kernel/acpi): the search for the root pointer, the *)
(* root table, the search for a table by its signature, and what parse_madt *)
(* and parse_hpet take from them.  The root table and the table looked at  *)
(* are mapped at two windows of address space; a window that is still      *)
(* mapped when another table is put into it is a panic of memory::vm::map. *)
(***************************************************************************)
EXTENDS Integers, Sequences, FiniteSets

CONSTANTS Firmware,    \* what the firmware may have left in memory, see FirmwareType
          All,         \* 0xff, 0xffffffff: an NMI entry for every processor
          None

\* The entries of a MADT, by type.
Entries == [type : {"lapic", "x2apic"}, acpi : Nat, apic : Nat, enabled : BOOLEAN]
      \cup [type : {"ioapic"}, base : Nat, size : Nat]
      \cup [type : {"override"}, bus : Nat, source : Nat, vector : Nat, reserved : BOOLEAN]
      \cup [type : {"nmi source"}, vector : Nat, flags : Nat]
      \cup [type : {"lapic nmi", "x2apic nmi"}, acpi : Nat \cup {All}, pin : Nat]
      \cup [type : {"lapic address"}, address : Nat]
\* checksum: the bytes of the table add up to 0.
Table == [sign : STRING, checksum : BOOLEAN, entries : Seq(Entries), address : Nat]
\* pointers: where a root pointer is looked for, every 16 bytes of the EBDA, then of the BIOS.
FirmwareType == [pointers : Seq([valid : BOOLEAN, revision : Nat]),
                 xsdt : [valid : BOOLEAN, tables : Seq(Table)],
                 rsdt : [valid : BOOLEAN, tables : Seq(Table)]]
ASSUME FirmwareAssumption ==
  /\ Firmware \subseteq FirmwareType
  /\ None \notin {"RSDP not found", "RSDT invalid", "already mapped", "reserved mode"}

VARIABLES
  fw,        \* the firmware of this machine
  at,        \* where the boot core is: <<function, position>>
  root,      \* "rsdt" or "xsdt" (new_root) or None
  rootWindow, window,  \* what is mapped at _root_address and _table_address
  cores, room,         \* _cores and how many fit the memory taken for them
  ioapics, sources,    \* _ioapics, _sources
  lapicBase,           \* what is mapped at lapic_base()
  hpets,               \* the timers parse_hpet reports
  acpiFault

acpiVars == <<fw, at, root, rootWindow, window, cores, room, ioapics, sources, lapicBase,
              hpets, acpiFault>>
found == <<cores, room, ioapics, sources, lapicBase, hpets>>

AcpiInit == /\ fw \in Firmware /\ at = <<"_find_rsdp", 1>> /\ root = None
            /\ rootWindow = None /\ window = None
            /\ cores = <<>> /\ room = 0 /\ ioapics = <<>> /\ sources = <<>>
            /\ lapicBase = None /\ hpets = None /\ acpiFault = None

AcpiPanic(why) == acpiFault' = why /\ UNCHANGED <<fw, at, root, rootWindow, window, found>>
Goto(place) == at' = place
Next1 == Goto(<<at[1], at[2] + 1>>)

------------------------------------------------------------------------------
(* The root                                                                *)

\* rsdp::validate, at one candidate place after the other.
FindRsdp == /\ at[1] = "_find_rsdp"
            /\ \/ /\ at[2] > Len(fw.pointers) /\ AcpiPanic("RSDP not found")
               \/ /\ at[2] <= Len(fw.pointers)
                  /\ IF fw.pointers[at[2]].valid
                     THEN Goto(<<IF fw.pointers[at[2]].revision # 0 THEN "_install_xsdt"
                                 ELSE "_install_rsdt", 1>>)
                     ELSE Next1
                  /\ UNCHANGED <<fw, root, rootWindow, window, found, acpiFault>>

\* An XSDT that is not valid is unmapped again, the RSDT is taken.
InstallXsdt == /\ at[1] = "_install_xsdt"
               /\ IF fw.xsdt.valid
                  THEN rootWindow' = "xsdt" /\ root' = "xsdt" /\ Goto(<<"FFFF", 1>>)
                  ELSE /\ Goto(<<"_install_rsdt", 1>>)
                       /\ UNCHANGED <<rootWindow, root>>
               /\ UNCHANGED <<fw, window, found, acpiFault>>

InstallRsdt == /\ at[1] = "_install_rsdt"
               /\ \/ rootWindow # None /\ AcpiPanic("already mapped")
                  \/ rootWindow = None /\ ~fw.rsdt.valid /\ AcpiPanic("RSDT invalid")
                  \/ /\ rootWindow = None /\ fw.rsdt.valid
                     /\ rootWindow' = "rsdt" /\ root' = "rsdt" /\ Goto(<<"FFFF", 1>>)
                     /\ UNCHANGED <<fw, window, found, acpiFault>>

------------------------------------------------------------------------------
(* Tables                                                                  *)

Tables == IF root = "xsdt" THEN fw.xsdt.tables ELSE fw.rsdt.tables
\* description_table_header::validate
Valid(table, sign) == table.sign = sign /\ table.checksum

\* Fault: a table that is not the one looked for stays mapped.
KeepWindow(i, next) == /\ window' = i /\ Goto(next)
LeaveWindow(i, next) == /\ window' = None /\ Goto(next)

\* _find_table, one entry of the root at a time: map, validate, unmap if it is another.
FindTable(sign, then, absent) ==
  /\ at[1] = sign
  /\ \/ /\ at[2] <= Len(Tables) /\ window # None /\ AcpiPanic("already mapped")
     \/ /\ at[2] <= Len(Tables) /\ window = None
        /\ IF Valid(Tables[at[2]], sign) THEN window' = at[2] /\ Goto(then)
           ELSE LeaveWindow(at[2], <<sign, at[2] + 1>>)
        /\ UNCHANGED <<fw, root, rootWindow, found, acpiFault>>
     \/ /\ at[2] > Len(Tables) /\ Goto(absent)
        /\ UNCHANGED <<fw, root, rootWindow, window, found, acpiFault>>

Initialize == FindTable("FFFF", <<"APIC", 1>>, <<"APIC", 1>>)
FindMadt == FindTable("APIC", <<"count", 1>>, <<"parsed", 1>>)
FindHpet == FindTable("HPET", <<"hpet", 1>>, <<"done", 1>>)

------------------------------------------------------------------------------
(* parse_madt                                                              *)

Madt == Tables[window].entries
Is(e, types) == e.type \in types
Processors == {"lapic", "x2apic"}
Nmis == {"lapic nmi", "x2apic nmi"}

\* The first pass counts the processors, an entry at a time;
CountEntry == /\ at[1] = "count" /\ at[2] <= Len(Madt)
              /\ room' = IF Is(Madt[at[2]], Processors) THEN room + 1 ELSE room
              /\ Next1
              /\ UNCHANGED <<fw, root, rootWindow, window, cores, ioapics, sources, lapicBase,
                             hpets, acpiFault>>
\* memory is taken for that many.
EntriesCounted == /\ at[1] = "count" /\ at[2] > Len(Madt)
                  /\ cores' = <<>> /\ ioapics' = <<>> /\ lapicBase' = Tables[window].address
                  /\ Goto(<<"second", 1>>)
                  /\ UNCHANGED <<fw, root, rootWindow, window, room, sources, hpets, acpiFault>>

Core(e) == [acpi |-> e.acpi, apic |-> e.apic, lapic |-> e.type = "lapic", nmi |-> None]

\* set_global_nmi on one I/O APIC after the other, until one has a valid one: its own vector
\* or one set before.
Owns(a, v) == a.base <= v /\ v < a.base + a.size
SetGlobalNmi(as, v) ==
  LET stops(k) == Owns(as[k], v) \/ as[k].nmi # None
      tried == {k \in 1..Len(as) : \A j \in 1..(k - 1) : ~stops(j)}
  IN [k \in 1..Len(as) |-> IF k \in tried /\ Owns(as[k], v) THEN [as[k] EXCEPT !.nmi = v]
                           ELSE as[k]]

\* The second pass, an entry: processors and I/O APICs in order; an interrupt override
\* goes on, without a break, as an NMI source with its vector.
SecondPass ==
  /\ at[1] = "second" /\ at[2] <= Len(Madt)
  /\ LET e == Madt[at[2]] IN
     \/ /\ Is(e, {"override"}) /\ e.reserved /\ AcpiPanic("reserved mode")
     \/ /\ ~(Is(e, {"override"}) /\ e.reserved)
        /\ cores' = IF Is(e, Processors) /\ e.enabled THEN Append(cores, Core(e)) ELSE cores
        /\ ioapics' = IF Is(e, {"ioapic"})
                      THEN Append(ioapics, [base |-> e.base, size |-> e.size, nmi |-> None])
                      ELSE IF Is(e, {"override", "nmi source"})
                      THEN SetGlobalNmi(ioapics, e.vector) ELSE ioapics
        /\ sources' = IF Is(e, {"override"}) THEN Append(sources, <<e.source, e.vector>>)
                      ELSE sources
        /\ lapicBase' = IF Is(e, {"lapic address"}) THEN e.address ELSE lapicBase
        /\ Next1
        /\ UNCHANGED <<fw, root, rootWindow, window, room, hpets, acpiFault>>

\* The local NMIs come in a third pass, when every processor is known: an entry is for
\* all (of the type lapic, or of any) or for the first one with its ACPI id.  Fault: the type does not
\* count.
SetNmisAnyType(cs, e) ==
  [k \in 1..Len(cs) |-> IF e.acpi = All \/ cs[k].acpi = e.acpi
                        THEN [cs[k] EXCEPT !.nmi = e.pin] ELSE cs[k]]
SetNmis(cs, e) ==
  [k \in 1..Len(cs) |->
     IF \/ e.acpi = All /\ (e.type = "x2apic nmi" \/ cs[k].lapic)
        \/ /\ e.acpi # All /\ cs[k].acpi = e.acpi
           /\ \A j \in 1..(k - 1) : cs[j].acpi # e.acpi
     THEN [cs[k] EXCEPT !.nmi = e.pin] ELSE cs[k]]

SecondPassDone == /\ at[1] = "second" /\ at[2] > Len(Madt)
                  /\ Goto(<<"third", 1>>)
                  /\ UNCHANGED <<fw, root, rootWindow, window, found, acpiFault>>
ThirdPass == /\ at[1] = "third" /\ at[2] <= Len(Madt)
             /\ cores' = IF Is(Madt[at[2]], Nmis) THEN SetNmis(cores, Madt[at[2]]) ELSE cores
             /\ Next1
             /\ UNCHANGED <<fw, root, rootWindow, window, room, ioapics, sources, lapicBase,
                            hpets, acpiFault>>

\* The local APIC is mapped, the table is unmapped.
MadtParsed == /\ at[1] = "third" /\ at[2] > Len(Madt)
              /\ window' = None /\ Goto(<<"parsed", 1>>)
              /\ UNCHANGED <<fw, root, rootWindow, found, acpiFault>>

------------------------------------------------------------------------------
(* parse_hpet                                                              *)

BeginHpet == /\ at[1] = "parsed" /\ Goto(<<"HPET", 1>>)
             /\ UNCHANGED <<fw, root, rootWindow, window, found, acpiFault>>
ParseHpet == /\ at[1] = "hpet"
             /\ hpets' = Tables[window].address /\ window' = None
             /\ Goto(<<"done", 1>>)
             /\ UNCHANGED <<fw, root, rootWindow, cores, room, ioapics, sources, lapicBase,
                            acpiFault>>

AcpiNext == /\ acpiFault = None
            /\ \/ FindRsdp \/ InstallXsdt \/ InstallRsdt
               \/ Initialize \/ FindMadt \/ FindHpet
               \/ CountEntry \/ EntriesCounted \/ SecondPass \/ SecondPassDone \/ ThirdPass
               \/ MadtParsed \/ BeginHpet \/ ParseHpet

------------------------------------------------------------------------------
(* Properties                                                              *)

\* With tables that are in order, the search and the parsers never meet a window that is
\* still mapped: every panic is the firmware's fault.
PanicsJustified ==
  CASE acpiFault = None -> TRUE
    [] acpiFault = "RSDP not found" -> \A k \in DOMAIN fw.pointers : ~fw.pointers[k].valid
    [] acpiFault = "RSDT invalid" -> ~fw.rsdt.valid
    [] acpiFault = "reserved mode" -> \E k \in DOMAIN Madt : Is(Madt[k], {"override"}) /\ Madt[k].reserved
    [] OTHER -> FALSE

\* The enabled processors among the first n entries of a MADT m, and the place of one of
\* them among the cores.
Addresses(e, p) == \/ e.acpi = p.acpi
                   \/ e.acpi = All /\ (e.type = "x2apic nmi" \/ p.type = "lapic")
EnabledIn(m, n) == {j \in 1..n : Is(m[j], Processors) /\ m[j].enabled}
PlaceIn(m, j) == Cardinality(EnabledIn(m, j))
\* The NMI entries among them that address processor j, and the pin that the last one sets.
NmisFor(m, j, n) == {i \in 1..n : Is(m[i], Nmis) /\ Addresses(m[i], m[j])}
PinIs(m, j, n, pin) ==
  IF NmisFor(m, j, n) = {} THEN pin = None
  ELSE \E i \in NmisFor(m, j, n) : (\A h \in NmisFor(m, j, n) : h <= i) /\ pin = m[i].pin

\* What the cores know of the MADT does not depend on the order of its entries beyond what
\* the specification of each says: the processors are the enabled ones in order, they fit
\* the memory taken, and each has the pin of the last NMI entry that addresses it, also
\* when that entry precedes the processor's.
ParsedAsWritten ==
  at[1] = "third" /\ at[2] > Len(Madt) =>
    LET m == Madt
        n == Len(Madt)
    IN /\ Len(cores) = Cardinality(EnabledIn(m, n)) /\ Len(cores) <= room
       /\ \A j \in EnabledIn(m, n) :
            LET core == cores[PlaceIn(m, j)] IN
            core.acpi = m[j].acpi /\ core.apic = m[j].apic /\ PinIs(m, j, n, core.nmi)

\* What is required of a firmware: acpi::initialize looks for a table "FFFF", and would leave
\* it mapped; there is none.
NoSuchTable ==
  \A f \in Firmware : /\ \A k \in 1..Len(f.xsdt.tables) : f.xsdt.tables[k].sign # "FFFF"
                      /\ \A k \in 1..Len(f.rsdt.tables) : f.rsdt.tables[k].sign # "FFFF"
\* The enabled processors have ids of their own, none of them the one that stands for all.
ProperIds(m) ==
  \A j \in EnabledIn(m, Len(m)) :
    m[j].acpi # All /\ \A k \in EnabledIn(m, Len(m)) : m[j].acpi = m[k].acpi => j = k
ProperTables ==
  \A f \in Firmware :
    /\ \A k \in 1..Len(f.xsdt.tables) : ProperIds(f.xsdt.tables[k].entries)
    /\ \A k \in 1..Len(f.rsdt.tables) : ProperIds(f.rsdt.tables[k].entries)
==============================================================================
