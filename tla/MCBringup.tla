------------------------------ MODULE MCBringup -------------------------------
(* Instances of Bringup for TLC.                                           *)
EXTENDS Bringup

(* The memory maps and files of the booter *)
E(base, end, type) == [base |-> base, length |-> end - base, type |-> type]
Maps == {
  <<E(0, 6, 1), E(6, 8, 2), E(8, 90, 1), E(400, 510, 2)>>,
  <<E(400, 510, 2), E(70, 96, 1), E(64, 70, 3), E(8, 64, 1), E(0, 6, 1)>>,
  <<E(8, 96, 1), E(90, 92, 2)>>,
  <<E(80, 96, 4), E(8, 60, 1), E(60, 64, 2), E(66, 90, 1)>>,
  <<E(8, 80, 1), E(84, 90, 1), E(90, 94, 1), E(96, 98, 2), E(98, 100, 2)>>,
  <<E(8, 40, 1), E(60, 70, 1)>>,
  <<E(8, 200, 1)>> }
Machine(map, kernel, initrd, screen) ==
  [map |-> map, kernel |-> kernel, initrd |-> initrd, video |-> 400, screen |-> screen]
\* The last: a back buffer that nothing fits, and one of just the size of an entry, and files
\* that reach past what was mapped at first.
MCMachines == {Machine(m, k, r, s) : m \in Maps, k \in {1, 4, 5}, r \in {1, 2, 5, 9}, s \in {3, 4, 9}}
         \cup {Machine(<<E(8, 90, 1), E(100, 104, 1)>>, 3, 4, s) : s \in {3, 200}}
         \cup {Machine(<<E(8, 200, 1)>>, k, r, 4) : k \in {4, 8}, r \in {39, 40, 44}}
\* The first usable memory above Low ends before the kernel is installed.
MCSparse == {Machine(<<E(0, 6, 1), E(8, 44, 1), E(44, 50, 2), E(50, 96, 1)>>, 4, r, s) : r \in 1..6, s \in {3, 4}}
MCDefault == Machine(<<E(8, 200, 1)>>, 4, 5, 4)

(* The tables of the firmware *)
Core1(type, id) == [type |-> type, acpi |-> id + 10, apic |-> id, enabled |-> TRUE]
Disabled(type, id) == [Core1(type, id) EXCEPT !.enabled = FALSE]
IoApic(base, size) == [type |-> "ioapic", base |-> base, size |-> size]
Override(source, vector, reserved) ==
  [type |-> "override", bus |-> 0, source |-> source, vector |-> vector, reserved |-> reserved]
Nmi(type, acpi, pin) == [type |-> type, acpi |-> acpi, pin |-> pin]
NmiSource(v) == [type |-> "nmi source", vector |-> v, flags |-> 0]
Address(a) == [type |-> "lapic address", address |-> a]
T(sign, checksum, entries, address) ==
  [sign |-> sign, checksum |-> checksum, entries |-> entries, address |-> address]

Usual ==
  <<Core1("lapic", 0), Core1("lapic", 1), Core1("lapic", 2), Core1("lapic", 3),
    IoApic(0, 2), Override(0, 1, FALSE), Nmi("lapic nmi", All, 1)>>
Madts == {
  Usual,
  <<Nmi("lapic nmi", 11, 1), Nmi("x2apic nmi", All, 0), Core1("lapic", 0), Disabled("lapic", 4),
    Core1("x2apic", 1), IoApic(0, 2), IoApic(2, 2), NmiSource(3), Nmi("lapic nmi", All, 1),
    Address(7), Core1("lapic", 2)>>,
  <<NmiSource(0), IoApic(0, 2), Core1("x2apic", 0), Nmi("lapic nmi", All, 1), Override(1, 0, TRUE)>>,
  <<Core1("lapic", 0), Nmi("x2apic nmi", 99, 1)>> }
P(valid, revision) == [valid |-> valid, revision |-> revision]
Root(valid, tables) == [valid |-> valid, tables |-> tables]
Hpet == T("HPET", TRUE, <<>>, 5)
MCFirmware ==
  {[pointers |-> <<P(FALSE, 0), P(TRUE, 2)>>,
    xsdt |-> Root(x, <<T("FACP", TRUE, <<>>, 1), T("APIC", FALSE, <<>>, 1), T("APIC", TRUE, m, 2)>>),
    rsdt |-> Root(r, <<Hpet, T("APIC", TRUE, m, 2)>>)] :
      <<m, x, r>> \in (Madts \X {TRUE} \X {TRUE}) \cup ({Usual} \X BOOLEAN \X BOOLEAN)}
  \cup {[pointers |-> <<P(v, 0)>>, xsdt |-> Root(FALSE, <<>>),
         rsdt |-> Root(TRUE, <<T("APIC", TRUE, <<Core1("lapic", 0)>>, 2), Hpet>>)] : v \in BOOLEAN}

\* What the theorems of AcpiProofs require of a firmware.
ASSUME FirmwareIsOrderly == NoSuchTable /\ ProperTables
==============================================================================
