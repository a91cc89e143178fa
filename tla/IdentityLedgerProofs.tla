------------------------ MODULE IdentityLedgerProofs ------------------------
(***************************************************************************)
(* Safety of the identity registry for any entities, mints, relationships, *)
(* proposals and limits, whatever the dates of the decisions.              *)
(***************************************************************************)
EXTENDS IdentityLedger, FiniteSetTheorems, TLAPS

-----------------------------------------------------------------------------
\* The inductive invariant.

TypeOK ==
    /\ registry \in
        [entity : [Entities -> [state : {"absent", "verified", "rejected"}, primary : Mints \cup {None}]],
         variant : [Mints -> [owner : Entities \cup {None}, state : {"absent", "verified", "rejected"}]],
         edge : [Relationships -> [state : {"absent", "verified", "rejected"}, fact : Facts \cup {None}]],
         latest : [Entities \cup Relationships -> {"none", "accept", "reject"}]]
    /\ proposal \in [Proposals -> {"absent", "pending", "decided"}]
    /\ deciding \in Proposals \cup {None}
    /\ recorded \subseteq Proposals /\ overtaken \subseteq Proposals

\* The primary mint of a verified entity is one of its verified variants, whether or
\* not the entity is published: a later decision may publish it again.
PrimaryIsVariant ==
    \A e \in Entities :
        LET row == registry.entity[e] IN
        row.state = "verified" /\ row.primary # None =>
            row.primary \in Mints /\ registry.variant[row.primary] = [owner |-> e, state |-> "verified"]

FactsAreDistinct ==
    \A r, q \in Accepted(registry) : registry.edge[r].fact = registry.edge[q].fact => r = q

\* What is being decided on has its row, unless it was pruned since the row was read.
DecidingHasRow == deciding # None => proposal[deciding] # "absent" \/ deciding \in overtaken

IInv == TypeOK /\ PrimaryIsVariant /\ FactsAreDistinct /\ CapacityIsKept
        /\ DecidedIsRetained /\ DecidingHasRow

-----------------------------------------------------------------------------
\* Counts and limits.

LEMMA MaxOfPair ==
    ASSUME NEW a \in Int, NEW b \in Int, b <= a
    PROVE  Max({a, b}) = a
<1>1. \E x \in {a, b} : \A y \in {a, b} : x >= y OBVIOUS
<1> QED BY <1>1 DEF Max

\* What is within capacity of a registry within its limits, is within its limits.
LEMMA CapacityStays ==
    ASSUME CapacityIsKept, NEW next, WithinCapacity(Counts(registry), Counts(next)),
           \A key \in DOMAIN Limits : Counts(registry)[key] \in Nat
    PROVE  \A key \in DOMAIN Limits : Counts(next)[key] <= Limits[key]
<1>1. DOMAIN Limits = {"entities", "variants", "relationships"}
      /\ \A key \in DOMAIN Limits : Limits[key] \in Nat
    BY LimitsAssumption DEF Limits
<1>2. \A key \in DOMAIN Limits : Max({Limits[key], Counts(registry)[key]}) = Limits[key]
    BY <1>1, MaxOfPair DEF CapacityIsKept
<1> QED BY <1>2 DEF WithinCapacity

LEMMA CountsType ==
    ASSUME NEW reg
    PROVE  /\ DOMAIN Counts(reg) = DOMAIN Limits
           /\ \A key \in DOMAIN Limits : Counts(reg)[key] \in Nat
<1>1. /\ PublishedEntities(reg) \subseteq Entities
      /\ MintsOf(reg, PublishedEntities(reg)) \subseteq Mints
      /\ EdgesAmong(reg, MintsOf(reg, PublishedEntities(reg))) \subseteq Relationships
    BY DEF PublishedEntities, MintsOf, EdgesAmong, Accepted
<1>2. /\ Cardinality(PublishedEntities(reg)) \in Nat
      /\ Cardinality(MintsOf(reg, PublishedEntities(reg))) \in Nat
      /\ Cardinality(EdgesAmong(reg, MintsOf(reg, PublishedEntities(reg)))) \in Nat
    BY <1>1, LimitsAssumption, FS_Subset, FS_CardinalityType
<1> QED BY <1>2 DEF Counts, Limits

\* Nothing is published at first.
LEMMA InitCapacity == ASSUME Init PROVE CapacityIsKept
<1>1. /\ PublishedEntities(Empty) = {}
      /\ Accepted(Empty) = {}
    BY DEF PublishedEntities, Accepted, Empty
<1>2. /\ MintsOf(Empty, PublishedEntities(Empty)) = {}
      /\ EdgesAmong(Empty, MintsOf(Empty, PublishedEntities(Empty))) = {}
    BY <1>1 DEF MintsOf, EdgesAmong
<1>3. Counts(Empty) = [entities |-> 0, variants |-> 0, relationships |-> 0]
    BY <1>1, <1>2, FS_EmptySet DEF Counts
<1> QED BY <1>3, LimitsAssumption DEF Init, CapacityIsKept, Limits

LEMMA InitIInv == Init => IInv
<1> SUFFICES ASSUME Init PROVE IInv OBVIOUS
<1>1. TypeOK BY DEF Init, TypeOK, Empty
<1>2. PrimaryIsVariant BY DEF Init, PrimaryIsVariant, Empty
<1>3. FactsAreDistinct BY DEF Init, FactsAreDistinct, Accepted, Empty
<1>4. DecidedIsRetained /\ DecidingHasRow BY DEF Init, DecidedIsRetained, DecidingHasRow
<1> QED BY <1>1, <1>2, <1>3, <1>4, InitCapacity DEF IInv

-----------------------------------------------------------------------------
\* One lemma for each way of saving.

LEMMA LatestType ==
    ASSUME TypeOK, NEW s \in Entities \cup Relationships, NEW decision \in {"accept", "reject"},
           NEW latest \in Latest(registry, s, decision)
    PROVE  [registry.latest EXCEPT ![s] = latest]
             \in [Entities \cup Relationships -> {"none", "accept", "reject"}]
<1>1. latest \in {"none", "accept", "reject"} BY DEF TypeOK, Latest
<1> QED BY <1>1 DEF TypeOK

LEMMA SaveEntityIInv ==
    ASSUME IInv, NEW e \in Entities, NEW mints \in SUBSET Mints,
           NEW decision \in {"accept", "reject"}, NEW primary \in Mints \cup {None},
           decision = "accept" => primary \in mints \cup {None},
           SaveEntity(e, mints, primary, decision)
    PROVE  IInv'
<1> DEFINE state == IF decision = "accept" THEN "verified" ELSE "rejected"
           entity == [registry.entity EXCEPT ![e] = [state |-> state, primary |-> primary]]
           variant == [m \in Mints |->
                IF m \in mints THEN [owner |-> e, state |-> state]
                ELSE IF registry.variant[m].owner = e THEN [owner |-> e, state |-> "rejected"]
                ELSE registry.variant[m]]
<1>1. PICK latest \in Latest(registry, e, decision) :
        Save([entity |-> entity, variant |-> variant, edge |-> registry.edge,
              latest |-> [registry.latest EXCEPT ![e] = latest]])
    BY DEF SaveEntity
<1>2. /\ registry' = [entity |-> entity, variant |-> variant, edge |-> registry.edge,
                      latest |-> [registry.latest EXCEPT ![e] = latest]]
      /\ WithinCapacity(Counts(registry), Counts(registry')) /\ UNCHANGED <<proposal, deciding, recorded, overtaken>>
    BY <1>1 DEF Save
<1>3. TypeOK'
    <2>1. entity \in [Entities -> [state : {"absent", "verified", "rejected"}, primary : Mints \cup {None}]]
        BY DEF IInv, TypeOK
    <2>2. variant \in [Mints -> [owner : Entities \cup {None}, state : {"absent", "verified", "rejected"}]]
        BY DEF IInv, TypeOK
    <2>3. [registry.latest EXCEPT ![e] = latest]
            \in [Entities \cup Relationships -> {"none", "accept", "reject"}]
        BY LatestType DEF IInv
    <2> HIDE DEF entity, variant
    <2> QED BY <1>2, <2>1, <2>2, <2>3 DEF IInv, TypeOK
<1>4. PrimaryIsVariant'
    <2> SUFFICES ASSUME NEW x \in Entities, entity[x].state = "verified", entity[x].primary # None
                 PROVE  /\ entity[x].primary \in Mints
                        /\ variant[entity[x].primary] = [owner |-> x, state |-> "verified"]
        BY <1>2 DEF PrimaryIsVariant
    <2>1. CASE x = e BY <2>1 DEF IInv, TypeOK
    <2>2. CASE x # e
        <3> DEFINE m == registry.entity[x].primary
        <3>1. entity[x] = registry.entity[x] BY <2>2 DEF IInv, TypeOK
        <3>2. m \in Mints /\ registry.variant[m] = [owner |-> x, state |-> "verified"]
            BY <3>1 DEF IInv, PrimaryIsVariant
        <3>3. m \notin mints
            <4> SUFFICES ASSUME m \in mints PROVE FALSE OBVIOUS
            <4>1. Released(e, m) BY DEF SaveEntity
            <4>2. registry.variant[m].owner = x /\ registry.variant[m].state = "verified" BY <3>2
            <4> QED BY <2>2, <3>1, <4>1, <4>2 DEF Released
        <3>4. variant[m] = registry.variant[m] BY <2>2, <3>2, <3>3
        <3> QED BY <3>1, <3>2, <3>4
    <2> QED BY <2>1, <2>2
<1>5. FactsAreDistinct'
    <2>1. Accepted(registry') = Accepted(registry)
        BY <1>2, LimitsAssumption DEF Accepted, IInv, TypeOK
    <2> QED BY <1>2, <2>1 DEF FactsAreDistinct, IInv
<1>6. CapacityIsKept'
    BY <1>2, CountsType, CapacityStays DEF IInv, CapacityIsKept
<1>7. DecidedIsRetained' /\ DecidingHasRow' BY <1>2 DEF IInv, DecidedIsRetained, DecidingHasRow
<1> QED BY <1>3, <1>4, <1>5, <1>6, <1>7 DEF IInv
LEMMA SaveRelationshipIInv ==
    ASSUME IInv, NEW r \in Relationships, NEW fact \in Facts,
           NEW decision \in {"accept", "reject"}, SaveRelationship(r, fact, decision)
    PROVE  IInv'
<1> DEFINE row == IF decision = "accept" THEN [state |-> "verified", fact |-> fact]
                  ELSE [state |-> "rejected", fact |-> None]
           edge == [registry.edge EXCEPT ![r] = row]
<1>1. PICK latest \in Latest(registry, r, decision) :
        Save([entity |-> registry.entity, variant |-> registry.variant, edge |-> edge,
              latest |-> [registry.latest EXCEPT ![r] = latest]])
    BY DEF SaveRelationship
<1>2. /\ registry' = [entity |-> registry.entity, variant |-> registry.variant, edge |-> edge,
                      latest |-> [registry.latest EXCEPT ![r] = latest]]
      /\ WithinCapacity(Counts(registry), Counts(registry')) /\ UNCHANGED <<proposal, deciding, recorded, overtaken>>
    BY <1>1 DEF Save
<1>3. TypeOK'
    <2>1. edge \in [Relationships ->
                    [state : {"absent", "verified", "rejected"}, fact : Facts \cup {None}]]
        BY DEF IInv, TypeOK
    <2>2. [registry.latest EXCEPT ![r] = latest]
            \in [Entities \cup Relationships -> {"none", "accept", "reject"}]
        BY LatestType DEF IInv
    <2> HIDE DEF edge
    <2> QED BY <1>2, <2>1, <2>2 DEF IInv, TypeOK
<1>4. PrimaryIsVariant' BY <1>2 DEF IInv, PrimaryIsVariant
<1>5. FactsAreDistinct'
    <2>1. \A q \in Relationships \ {r} :
            /\ registry'.edge[q] = registry.edge[q] /\ registry'.latest[q] = registry.latest[q]
        BY <1>2 DEF IInv, TypeOK
    <2>2. \A q \in Accepted(registry') \ {r} :
            q \in Accepted(registry) \ {r} /\ registry'.edge[q].fact = registry.edge[q].fact
        BY <2>1 DEF Accepted
    <2>3. registry'.edge[r] = row BY <1>2 DEF IInv, TypeOK
    <2>4. CASE decision = "accept"
        <3>1. \A q \in Accepted(registry) \ {r} : registry.edge[q].fact # fact
            BY <2>4 DEF SaveRelationship
        <3>2. registry'.edge[r].fact = fact BY <2>3, <2>4
        <3> QED BY <2>2, <3>1, <3>2 DEF FactsAreDistinct, IInv
    <2>5. CASE decision = "reject"
        <3>1. r \notin Accepted(registry') BY <2>3, <2>5 DEF Accepted
        <3> QED BY <2>2, <3>1 DEF FactsAreDistinct, IInv
    <2> QED BY <2>4, <2>5
<1>6. CapacityIsKept'
    BY <1>2, CountsType, CapacityStays DEF IInv, CapacityIsKept
<1>7. DecidedIsRetained' /\ DecidingHasRow' BY <1>2 DEF IInv, DecidedIsRetained, DecidingHasRow
<1> QED BY <1>3, <1>4, <1>5, <1>6, <1>7 DEF IInv

\* The queue of proposals and the decide command leave the registry alone.
LEMMA QueueIInv ==
    ASSUME IInv, registry' = registry,
           proposal' \in [Proposals -> {"absent", "pending", "decided"}],
           deciding' \in Proposals \cup {None},
           recorded' \subseteq Proposals, overtaken' \subseteq Proposals, DecidedIsRetained', DecidingHasRow'
    PROVE  IInv'
BY DEF IInv, TypeOK, PrimaryIsVariant, FactsAreDistinct, CapacityIsKept

\* A refresh touches no decided row, and what it prunes of the rows that are being
\* decided on is remembered.
LEMMA RefreshIInv ==
    ASSUME IInv, NEW batch \in SUBSET Proposals, Refresh(batch)
    PROVE  IInv'
<1> DEFINE rows == Refreshed(batch)
           pending == {p \in Proposals : rows[p] = "pending"}
<1>1. PICK kept \in SUBSET pending :
        /\ proposal' = [p \in Proposals |-> IF p \in pending \ kept THEN "absent" ELSE rows[p]]
        /\ overtaken' = overtaken \cup ((pending \ kept) \cap {deciding})
    BY DEF Refresh
<1>2. UNCHANGED <<registry, deciding, recorded>> BY DEF Refresh
<1>3. /\ rows \in [Proposals -> {"absent", "pending", "decided"}]
      /\ \A p \in Proposals : proposal[p] = "decided" <=> rows[p] = "decided"
    BY DEF Refreshed, IInv, TypeOK
<1> HIDE DEF rows
<1>4. /\ proposal' \in [Proposals -> {"absent", "pending", "decided"}]
      /\ \A p \in Proposals : proposal'[p] = "decided" <=> proposal[p] = "decided"
    BY <1>1, <1>3
<1>5. overtaken \subseteq overtaken' /\ overtaken' \subseteq Proposals
    BY <1>1 DEF IInv, TypeOK
<1>6. DecidedIsRetained' BY <1>2, <1>4, <1>5 DEF IInv, DecidedIsRetained
<1>7. DecidingHasRow'
    <2> SUFFICES ASSUME deciding # None, proposal'[deciding] = "absent"
                 PROVE  deciding \in overtaken'
        BY <1>2 DEF DecidingHasRow
    <2>1. deciding \in Proposals BY DEF IInv, TypeOK
    <2>2. CASE deciding \in pending \ kept BY <1>1, <2>2
    <2>3. CASE deciding \notin pending \ kept
        <3>1. rows[deciding] = "absent" BY <1>1, <2>1, <2>3
        <3>2. proposal[deciding] = "absent" BY <2>1, <3>1 DEF rows, Refreshed
        <3> QED BY <1>5, <3>2 DEF IInv, DecidingHasRow
    <2> QED BY <2>2, <2>3
<1> QED BY <1>2, <1>4, <1>5, <1>6, <1>7, QueueIInv DEF IInv, TypeOK

\* A decision is recorded together with the status of its row, when there is one.
LEMMA DecideIInv ==
    ASSUME IInv, NEW p \in Proposals, Decide(p)
    PROVE  IInv'
<1>1. registry' = registry /\ deciding' = None /\ recorded' = recorded \cup {p} BY DEF Decide
<1>2. CASE proposal[p] = "absent"
    <2>1. UNCHANGED <<proposal, overtaken>> BY <1>2 DEF Decide
    <2>2. deciding = p BY DEF Decide
    <2>3. p \in overtaken BY <1>2, <2>2, LimitsAssumption DEF IInv, DecidingHasRow
    <2>4. DecidedIsRetained' /\ DecidingHasRow'
        BY <1>1, <1>2, <2>1, <2>3 DEF IInv, DecidedIsRetained, DecidingHasRow
    <2> QED BY <1>1, <2>1, <2>4, QueueIInv DEF IInv, TypeOK
<1>3. CASE proposal[p] # "absent"
    <2>1. proposal' = [proposal EXCEPT ![p] = "decided"] /\ overtaken' = overtaken \ {p}
        BY <1>3 DEF Decide
    <2>2. /\ proposal' \in [Proposals -> {"absent", "pending", "decided"}]
          /\ proposal'[p] = "decided"
          /\ \A q \in Proposals \ {p} : proposal'[q] = proposal[q]
        BY <2>1 DEF IInv, TypeOK
    <2>3. DecidedIsRetained' /\ DecidingHasRow'
        BY <1>1, <2>1, <2>2 DEF IInv, DecidedIsRetained, DecidingHasRow
    <2> QED BY <1>1, <2>1, <2>2, <2>3, QueueIInv DEF IInv, TypeOK
<1> QED BY <1>2, <1>3

LEMMA StepIInv == ASSUME IInv, [Next]_vars PROVE IInv'
<1>1. ASSUME NEW e \in Entities, NEW mints \in SUBSET Mints \ {{}},
             \/ \E primary \in mints \cup {None} : SaveEntity(e, mints, primary, "accept")
             \/ SaveEntity(e, mints, None, "reject")
      PROVE  IInv'
    <2>1. ASSUME NEW primary \in mints \cup {None}, SaveEntity(e, mints, primary, "accept") PROVE IInv'
        BY <2>1, SaveEntityIInv
    <2>2. CASE SaveEntity(e, mints, None, "reject") BY <2>2, SaveEntityIInv
    <2> QED BY <1>1, <2>1, <2>2
<1>2. ASSUME NEW p \in Proposals, ReadProposal(p) PROVE IInv'
    BY <1>2, QueueIInv DEF ReadProposal, IInv, TypeOK, DecidedIsRetained, DecidingHasRow
<1>3. CASE Quit
    <2>1. /\ UNCHANGED <<registry, proposal, recorded>>
          /\ deciding' = None /\ overtaken' = overtaken \cap recorded
        BY <1>3 DEF Quit
    <2>2. DecidedIsRetained' /\ DecidingHasRow' BY <2>1 DEF IInv, DecidedIsRetained, DecidingHasRow
    <2> QED BY <2>1, <2>2, QueueIInv DEF IInv, TypeOK
<1>4. CASE UNCHANGED vars
    BY <1>4, QueueIInv DEF vars, IInv, TypeOK, DecidedIsRetained, DecidingHasRow
<1> QED BY <1>1, <1>2, <1>3, <1>4, SaveRelationshipIInv, RefreshIInv, DecideIInv DEF Next

-----------------------------------------------------------------------------
\* The theorems.

\* The invariant holds in every state.
THEOREM Invariance == Spec => []IInv
<1> QED BY InitIInv, StepIInv, PTL DEF Spec

\* Rows, decisions and proposals keep their types.
THEOREM TypeCorrect == Spec => []TypeOK
<1>1. IInv => TypeOK BY DEF IInv
<1> QED BY <1>1, Invariance, PTL

\* The published registry is always one that the constructor of CanonicalRegistry
\* takes, and leaves no accepted relationship out: what is dormant was checked when
\* it was saved, and what would contradict it was refused while it slept.
THEOREM RegistryIsSound == Spec => []RegistryConstructs
<1>1. IInv => RegistryConstructs
    <2> SUFFICES ASSUME IInv PROVE RegistryConstructs OBVIOUS
    <2>1. \A e \in PublishedEntities(registry) : registry.entity[e].state = "verified" /\ e \in Entities
        BY DEF PublishedEntities
    <2> QED BY <2>1 DEF IInv, PrimaryIsVariant, FactsAreDistinct, RegistryConstructs
<1> QED BY <1>1, Invariance, PTL

\* assertIdentityCapacity, called by each save alone, keeps the published registry
\* within its limits through every sequence of saves.
THEOREM KeptCapacity == Spec => []CapacityIsKept
<1>1. IInv => CapacityIsKept BY DEF IInv
<1> QED BY <1>1, Invariance, PTL

\* A recorded decision stays with its proposal while the server refreshes and prunes,
\* unless the row was pruned between the two halves of the command that recorded it.
THEOREM RetainedDecisions == Spec => []DecidedIsRetained
<1>1. IInv => DecidedIsRetained BY DEF IInv
<1> QED BY <1>1, Invariance, PTL
=============================================================================
