------------------------------ MODULE MCRedfish ------------------------------
(***************************************************************************)
(* A small BMC.                                                            *)
(*                                                                         *)
(* It lists network devices.  One NIC is listed twice, as iLO 6 does: a    *)
(* bare entry whose target is a URI the BMC answers with a stub, so that   *)
(* it is found by its slot, and a measured entry, whose Id names no usable *)
(* slot.  A second NIC has an entry without an Id, and a slot ordinal that *)
(* is not a slot's.  A drive, measured too, is no network adapter.         *)
(*                                                                         *)
(* It also lists TPMs, the host's and the BMC's own.                       *)
(***************************************************************************)
EXTENDS RedfishClient, TLC

Entry(id, type, target, measured, action, slot) ==
    [id |-> id, type |-> type, target |-> target, measured |-> measured,
     action |-> action, slot |-> slot]

MCSlashed == [p \in {"mgr/"} |-> "mgr"]
MCOEMCert == [m \in {"mgr/", "mgr"} |-> "oem"]

MCDevices ==
    [ci1  |-> Entry("Slot-22", "SPDM", "na/stub", FALSE, None, "22"),
     ci1m |-> Entry("Slot-huge", "SPDM", "na/1", TRUE, None, BadSlot),
     ci2  |-> Entry(None, "SPDM", "na/2", FALSE, None, NoSlot),
     ci3  |-> Entry("drive", "SPDM", "ssd", TRUE, None, NoSlot),
     tpm  |-> Entry("TPM-1", "TPM", "mgr", FALSE, "tpm/quote", NoSlot),
     host |-> Entry("TPM-2", "TPM", "sys", FALSE, "host/quote", NoSlot)]
MCListed == DOMAIN MCDevices

MCAdapter ==
    "na/1" :> [ports |-> "p1", location |-> "Slot", ordinal |-> "22"]
    @@ "na/2" :> [ports |-> "p2", location |-> "Embedded", ordinal |-> "22"]
    @@ "ssd" :> [ports |-> None, location |-> "Slot", ordinal |-> "22"]
MCAdaptersIn == [t \in {"na/stub"} |-> {"na/1", "na/2"}]
MCPortsIn == [p1 |-> {"p1/1", "p1/2"}, p2 |-> {"p2/1"}]
MCPortMACs ==
    "p1/1" :> {}
    @@ "p1/2" :> {[mac |-> "m1", upper |-> TRUE, padded |-> FALSE]}
    @@ "p2/1" :> {[mac |-> "m2", upper |-> TRUE, padded |-> TRUE]}
MCStubs == {"na/stub", "mgr"}

\* Its certificates: two IDevIDs in the collection, one of them without content,
\* and nothing at the OEM path, as Dell has it; no collection and an IDevID at the
\* OEM path, as HPE has it; no content there; both; a collection without an
\* IDevID and nothing at the OEM path.
Identity(members, pem, notPEM) ==
    [collection |-> members # {}, members |-> members, pem |-> pem, notPEM |-> notPEM]
MCIdentities ==
    {Identity({"web", "iDEVID_1", "iDEVID_2"}, {"web", "iDEVID_1"}, {"iDEVID_2"}),
     Identity({}, {"oem"}, {}),
     Identity({}, {}, {"oem"}),
     Identity({"web", "iDEVID_1"}, {"web", "iDEVID_1", "oem"}, {}),
     Identity({"web"}, {"web"}, {})}
=============================================================================
