--------------------------- MODULE IdentityLedger ---------------------------
(***************************************************************************)
(* The registry of reviewed identities: entities with their variants       *)
(* (mints), relationships between mints, the decisions about them, and the *)
(* queue of machine-made proposals.  The operator's commands (identity-cli *)
(* over store.js) run in processes of their own beside the server, which   *)
(* refreshes the proposals and publishes the registry.                     *)
(*                                                                         *)
(* A decision carries the date its author gives it, and the one with the   *)
(* latest date counts: one that is dated back is recorded and changes the  *)
(* rows, but is not the latest.  Of the decisions about a subject only the *)
(* latest is kept here; refusals (reject, split, supersede) are not told   *)
(* apart.                                                                  *)
(*                                                                         *)
(* An import saves a list of entries in one transaction, and nothing of it *)
(* when one throws.  Each entry is a step here: what stands between two of *)
(* them is also what a shorter import leaves behind.                       *)
(***************************************************************************)
EXTENDS FiniteSets, FiniteSetsExt, Integers, TLC

CONSTANTS
    Entities, Mints, Relationships, Proposals,
    EntityLimit, VariantLimit, RelationshipLimit,   \* IDENTITY_REGISTRY_CAPACITY
    PendingLimit,                                   \* IDENTITY_PENDING_PROPOSAL_LIMIT
    None

\* A decision names the type of its subject.
ASSUME LimitsAssumption ==
    /\ {EntityLimit, VariantLimit, RelationshipLimit, PendingLimit} \subseteq Nat
    /\ \A S \in {Entities, Mints, Relationships} : IsFiniteSet(S)
    /\ Entities \cap Relationships = {} /\ None \notin Proposals

VARIABLES
    registry,    \* the rows of entities, variants and relationships, each with its state, and
                 \* the latest decision about each entity and relationship
    proposal,    \* status of each proposal, "absent" without a row; accepted, rejected and
                 \* superseded are not told apart
    deciding,    \* the proposal the decide command has read, or None
    recorded,    \* the proposals with a decision in identity_decisions
    overtaken    \* history: the proposals pruned while they were being decided on, unless
                 \* the command came to nothing or a later decision found a row

vars == <<registry, proposal, deciding, recorded, overtaken>>

-----------------------------------------------------------------------------
\* What two relationships may not both state: a kind, and two mints in either order.
\* Kinds do not touch each other, so there is one.
Facts == kSubset(2, Mints)

Empty ==
    [entity |-> [e \in Entities |-> [state |-> "absent", primary |-> None]],
     variant |-> [m \in Mints |-> [owner |-> None, state |-> "absent"]],
     edge |-> [r \in Relationships |-> [state |-> "absent", fact |-> None]],
     latest |-> [s \in Entities \cup Relationships |-> "none"]]

\* The queries that publish.
PublishedEntities(reg) ==
    {e \in Entities : reg.entity[e].state = "verified" /\ reg.latest[e] = "accept"
                        /\ \E m \in Mints : reg.variant[m] = [owner |-> e, state |-> "verified"]}

MintsOf(reg, entities) ==
    {m \in Mints : reg.variant[m].state = "verified" /\ reg.variant[m].owner \in entities}

Accepted(reg) == {r \in Relationships : reg.edge[r].state = "verified" /\ reg.latest[r] = "accept"}

EdgesAmong(reg, mints) == {r \in Accepted(reg) : reg.edge[r].fact \subseteq mints}

\* publishedIdentityCounts
Counts(reg) ==
    LET entities == PublishedEntities(reg)
        mints == MintsOf(reg, entities)
    IN  [entities |-> Cardinality(entities),
         variants |-> Cardinality(mints),
         relationships |-> Cardinality(EdgesAmong(reg, mints))]

Limits == [entities |-> EntityLimit, variants |-> VariantLimit, relationships |-> RelationshipLimit]

\* assertIdentityCapacity: what grew is within its limit.
MutantWithinCapacity(before, after) ==
    \A key \in {"entities", "variants"} : after[key] <= Max({Limits[key], before[key]})
WithinCapacity(before, after) ==
    \A key \in DOMAIN Limits : after[key] <= Max({Limits[key], before[key]})

\* insertIdentityDecision: the decisions that may be the latest one afterwards.
Latest(reg, subject, decision) ==
    {decision} \cup (IF reg.latest[subject] = "none" THEN {} ELSE {reg.latest[subject]})

-----------------------------------------------------------------------------
\* A mint stays with its entity until that entity is rejected, or the mint with it.
MutantReleased(e, m) == e \in Entities /\ m \in Mints
Released(e, m) ==
    LET row == registry.variant[m] IN
    row.owner \in Entities \ {e} =>
        row.state = "rejected" \/ registry.entity[row.owner].state = "rejected"

\* The end of a save.
Save(next) ==
    /\ WithinCapacity(Counts(registry), Counts(next))
    /\ registry' = next
    /\ UNCHANGED <<proposal, deciding, recorded, overtaken>>

\* saveIdentityEntity, of an accepted entity or of one that is not, whose variants are
\* rejected with it.  Variants the entry leaves out are rejected as well.
SaveEntity(e, mints, primary, decision) ==
    LET state == IF decision = "accept" THEN "verified" ELSE "rejected" IN
    /\ \A m \in mints : Released(e, m)
    /\ \E latest \in Latest(registry, e, decision) :
        Save([entity |-> [registry.entity EXCEPT ![e] = [state |-> state, primary |-> primary]],
              variant |-> [m \in Mints |->
                IF m \in mints THEN [owner |-> e, state |-> state]
                ELSE IF registry.variant[m].owner = e THEN [owner |-> e, state |-> "rejected"]
                ELSE registry.variant[m]],
              edge |-> registry.edge,
              latest |-> [registry.latest EXCEPT ![e] = latest]])

\* saveIdentityRelationship, of an accepted relationship or of one that is not; its ends
\* are published either way.  What a refused relationship states is not read again.
SaveRelationship(r, fact, decision) ==
    LET row == IF decision = "accept" THEN [state |-> "verified", fact |-> fact]
               ELSE [state |-> "rejected", fact |-> None]
    IN
    /\ fact \subseteq MintsOf(registry, PublishedEntities(registry))
    /\ decision = "accept" => \A q \in Accepted(registry) \ {r} : registry.edge[q].fact # fact
    /\ \E latest \in Latest(registry, r, decision) :
        Save([entity |-> registry.entity,
              variant |-> registry.variant,
              edge |-> [registry.edge EXCEPT ![r] = row],
              latest |-> [registry.latest EXCEPT ![r] = latest]])

-----------------------------------------------------------------------------
\* upsertIdentityProposals in the server: the batch is inserted or refreshed, then the
\* oldest pending rows beyond the limit go.  It fails while an import holds the lock.
MutantRefreshed(batch) == [p \in Proposals |-> IF p \in batch THEN "pending" ELSE proposal[p]]
Refreshed(batch) ==
    [p \in Proposals |-> IF p \in batch /\ proposal[p] = "absent" THEN "pending" ELSE proposal[p]]

Refresh(batch) ==
    /\ Cardinality(batch) <= PendingLimit
    /\ LET rows == Refreshed(batch)
           pending == {p \in Proposals : rows[p] = "pending"}
       IN \E kept \in SUBSET pending :
            /\ pending \cap batch \subseteq kept
            /\ Cardinality(kept) = Min({PendingLimit, Cardinality(pending)})
            /\ proposal' = [p \in Proposals |-> IF p \in pending \ kept THEN "absent" ELSE rows[p]]
            /\ overtaken' = overtaken \cup ((pending \ kept) \cap {deciding})
    /\ UNCHANGED <<registry, deciding, recorded>>

\* decideIdentityProposal: reads the row, of whatever status, and then records the
\* decision in a transaction; the row, when it is still there, gets its status.
ReadProposal(p) ==
    /\ proposal[p] # "absent" /\ deciding = None
    /\ deciding' = p
    /\ UNCHANGED <<registry, proposal, recorded, overtaken>>

Decide(p) ==
    /\ deciding = p /\ deciding' = None
    /\ recorded' = recorded \cup {p}
    /\ \/ /\ proposal[p] = "absent"
          /\ UNCHANGED <<proposal, overtaken>>
       \/ /\ proposal[p] # "absent"
          /\ proposal' = [proposal EXCEPT ![p] = "decided"]
          /\ overtaken' = overtaken \ {p}
    /\ UNCHANGED registry

\* The command ends without a decision: a failed write, a decision that is not taken.
Quit ==
    /\ deciding # None /\ deciding' = None
    /\ overtaken' = overtaken \cap recorded
    /\ UNCHANGED <<registry, proposal, recorded>>

-----------------------------------------------------------------------------
Init ==
    /\ registry = Empty
    /\ proposal = [p \in Proposals |-> "absent"] /\ deciding = None
    /\ recorded = {} /\ overtaken = {}

Next ==
    \/ \E e \in Entities, mints \in SUBSET Mints \ {{}} :
        \/ \E primary \in mints \cup {None} : SaveEntity(e, mints, primary, "accept")
        \/ SaveEntity(e, mints, None, "reject")
    \/ \E r \in Relationships, fact \in Facts, decision \in {"accept", "reject"} :
          SaveRelationship(r, fact, decision)
    \/ \E batch \in SUBSET Proposals : Refresh(batch)
    \/ \E p \in Proposals : ReadProposal(p) \/ Decide(p)
    \/ Quit

Spec == Init /\ [][Next]_vars

-----------------------------------------------------------------------------
\* The registry that is published is one the constructor of CanonicalRegistry takes, or
\* every page would fail: the primary mint of an entity is one of its variants
\* (canonical-registry.js 80).  And it says all that was accepted: no accepted fact is
\* left out as the duplicate of another (semantic_rank, store.js 1808), whatever the dates of the
\* decisions, and also when dormant relationships are published again.
RegistryConstructs ==
    /\ \A e \in PublishedEntities(registry) :
        LET primary == registry.entity[e].primary IN
        primary # None => registry.variant[primary] = [owner |-> e, state |-> "verified"]
    /\ \A r, q \in Accepted(registry) : registry.edge[r].fact = registry.edge[q].fact => r = q

\* What is published never outgrows its limits, also when an entity that is accepted again
\* brings back relationships that were dormant: the projection has nothing to leave out.
CapacityIsKept == \A key \in DOMAIN Limits : Counts(registry)[key] <= Limits[key]

\* A decision counts for good: its proposal is neither pruned nor proposed again
\* ("accepted, rejected, and superseded review records remain retained",
\* src/README.md:108).  The one exception is a row the server pruned while the operator
\* was deciding on it: the update of decideIdentityProposal then finds no row, the decision
\* is recorded all the same, and the proposal may be made again.
DecidedIsRetained ==
    \A p \in Proposals :
        /\ proposal[p] = "decided" => p \in recorded
        /\ p \in recorded => proposal[p] = "decided" \/ p \in overtaken

\* The sets are interchangeable.
Symmetry ==
    Permutations(Entities) \cup Permutations(Mints) \cup Permutations(Relationships)
        \cup Permutations(Proposals)
=============================================================================
