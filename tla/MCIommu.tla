------------------------------- MODULE MCIommu -------------------------------
(* Hosts with three entries in /sys/class/net and two PCI functions, for   *)
(* TLC.                                                                    *)
EXTENDS IommuNics

CONSTANTS f1, f2

Entry(link) == [link |-> link, representor |-> FALSE, named |-> TRUE, bond |-> "no",
                perm |-> FALSE, hwaddr |-> FALSE, address |-> TRUE]
Port(f, bond, perm, hwaddr, address) ==
    [link |-> f, representor |-> FALSE, named |-> FALSE, bond |-> bond,
     perm |-> perm, hwaddr |-> hwaddr, address |-> address]
Representor(f) == [Entry(f) EXCEPT !.representor = TRUE]
Unnamed(f) == [Representor(f) EXCEPT !.named = FALSE]

\* Ports with a permanent address, with none at all, with nothing but their
\* address, slaves with and without an address of their own, a port whose bond
\* cannot be examined; representors, one of them with an unreadable name;
\* entries that are no PCI device.
TwoFunctions ==
    [n \in 1 .. 3 |->
        CASE n = 1 -> {Port(f1, "no", TRUE, FALSE, TRUE), Port(f1, "no", FALSE, FALSE, FALSE),
                       Representor(f1), Entry("unreadable")}
          [] n = 2 -> {Port(f1, "no", FALSE, FALSE, TRUE), Port(f1, "slave", FALSE, FALSE, TRUE),
                       Port(f1, "slave", FALSE, TRUE, TRUE), Port(f1, "unreadable", FALSE, FALSE, TRUE),
                       Representor(f1), Representor(f2), Entry("unreadable"), Entry("not PCI")}
          [] n = 3 -> {Representor(f1), Unnamed(f1), Port(f2, "no", TRUE, FALSE, TRUE),
                       Port(f1, "no", FALSE, FALSE, TRUE), Port(f2, "slave", FALSE, FALSE, TRUE)}]

=============================================================================
