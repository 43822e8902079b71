------------------------------ MODULE MCChipId ------------------------------
(* A host with two sockets, for TLC: two ASPs among other PCI functions.   *)
EXTENDS ChipId

Entry(vendor, isASP, size, chip) == [vendor |-> vendor, asp |-> isASP, size |-> size, chip |-> chip]

\* The first ASP has a BAR of 0x0 to 0x0, of size 1 for findASPDevices.
TwoSockets ==
    <<Entry("other", FALSE, 4, "no chip"), Entry("AMD", FALSE, 4, "no chip"),
      Entry("AMD", TRUE, 0, "unassigned"), Entry("AMD", TRUE, 1, "no registers"),
      Entry("AMD", TRUE, 4, "chip A"),
      Entry("unreadable", TRUE, 4, "hidden"), Entry("AMD", TRUE, 4, "chip B")>>

Event(pcr, payload) == [pcr |-> pcr, payload |-> payload]

EventLogs ==
    { << >>, <<Event(1, "short"), Event(1, "untagged")>>,
      <<Event(0, "foreign"), Event(1, "untagged")>>,
      <<Event(5, "foreign"), Event(1, "short"), Event(1, "chip A"), Event(1, "chip B")>> }

AnyLog == {LogFile(TRUE, e) : e \in EventLogs} \cup {LogFile(FALSE, << >>)}

=============================================================================
