----------------------- MODULE ProofGatedPublication -----------------------
(***************************************************************************)
(* What the PVDM runtime promises about one workload: proofs pass, a       *)
(* snapshot is published from proofs that passed, and the publication is   *)
(* acknowledged by burning the nonces of its proofs, once each.  Nothing   *)
(* is said of files, logs, retries, crashes or who does the work.          *)
(***************************************************************************)
CONSTANTS
    NonceOf(_),       \* the nonce of a proof
    LedgerIsDurable   \* FALSE: the burned nonces may be forgotten

VARIABLES
    passed,     \* proofs whose verdict was PASS
    published,  \* snapshots: records with the fields by and drafts
    acked,      \* publishers whose snapshot is acknowledged
    ledger      \* burned nonces

vars == <<passed, published, acked, ledger>>

Nonces(p) == {NonceOf(d) : d \in p.drafts}

Init == passed = {} /\ published = {} /\ acked = {} /\ ledger = {}

\* One more proof passes.
Verify ==
    /\ \E d \in passed' \ passed : passed' = passed \cup {d}
    /\ UNCHANGED <<published, acked, ledger>>

\* One more snapshot appears, by someone who has published none before.
Publish ==
    /\ \E p \in published' \ published :
        /\ published' = published \cup {p}
        /\ p.drafts # {} /\ p.drafts \subseteq passed
        /\ \A q \in published : q.by # p.by
    /\ UNCHANGED <<passed, acked, ledger>>

\* The nonces of a snapshot are burned together, if none was burned before.
Acknowledge ==
    /\ \E p \in published :
        /\ p.by \notin acked /\ Nonces(p) \cap ledger = {}
        /\ acked' = acked \cup {p.by}
        /\ ledger' = ledger \cup Nonces(p)
    /\ UNCHANGED <<passed, published>>

Forget ==
    /\ ~LedgerIsDurable
    /\ ledger' = {}
    /\ UNCHANGED <<passed, published, acked>>

Next == Verify \/ Publish \/ Acknowledge \/ Forget

Spec == Init /\ [][Next]_vars
=============================================================================
