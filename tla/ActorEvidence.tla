--------------------------- MODULE ActorEvidence ---------------------------
(***************************************************************************)
(* What a finalized transaction shows of a launch: the extraction of       *)
(* src/src/solana-rpc.js.                                                  *)
(*                                                                         *)
(* Ledger[i] is an answer of getTransaction.  An instruction names its     *)
(* accounts by their position in keys; its field sound says that its       *)
(* lengths, fixed accounts and derived addresses are those of the official *)
(* program, which is arithmetic on addresses and not modelled.  at is the  *)
(* block time, in seconds from the second of the launch.  A transaction    *)
(* that is refused and one that shows no trade both give no observation;   *)
(* the counters that tell them apart are left out.                         *)
(***************************************************************************)
EXTENDS Integers, Sequences, FiniteSets

CONSTANTS
    Mint,           \* the launch
    Pump,           \* the address of the official programs
    None,           \* an absent header or source
    Ledger,         \* the transactions that refer to the launch
    MaxActors,      \* actors observed in one transaction (16)
    MaxTokenAmount  \* the largest amount an observation may have (10^15)

List(s) == s \in Seq({s[i] : i \in DOMAIN s})

\* Finitely many transactions refer to the launch.  An answer has lists of
\* keys, instructions and balances; amounts are u64.
ASSUME EvidenceAssumption ==
    /\ MaxActors \in Nat /\ MaxTokenAmount \in Nat
    /\ IsFiniteSet(DOMAIN Ledger)
    /\ \A n \in DOMAIN Ledger :
        LET tx == Ledger[n]
        IN /\ List(tx.keys)
           /\ \A s \in {tx.instructions, tx.pre, tx.post} :
                List(s) /\ \A i \in DOMAIN s : s[i].amount \in Nat

\* The sum of a sequence of numbers.
Total(w) ==
    LET sum[n \in 0..Len(w)] == IF n = 0 THEN 0 ELSE sum[n - 1] + w[n]
    IN sum[Len(w)]

-----------------------------------------------------------------------------
\* accountKeys: the static keys come first, and among them the signers.

StaticCount(K) == Cardinality({i \in DOMAIN K : \A j \in 1..i : K[j].source # "lookupTable"})
SourceOf(K, i) == IF i <= StaticCount(K) THEN "transaction" ELSE "lookupTable"
Signing(K) == {i \in DOMAIN K : K[i].signer}

Distinct(K) == \A i, j \in DOMAIN K : K[i].address = K[j].address => i = j

WithoutHeader(K) ==
    /\ \A i \in DOMAIN K : K[i].source = SourceOf(K, i)
    /\ Cardinality(Signing(K)) \in 1..StaticCount(K)
    /\ Signing(K) = 1..Cardinality(Signing(K))

WithHeader(K, h) ==
    /\ \A i \in DOMAIN K : K[i].source \in {None, SourceOf(K, i)}
    /\ h.required \in 1..StaticCount(K)
    /\ h.readonlySigned \in 0..h.required
    /\ h.readonlyUnsigned \in 0..(StaticCount(K) - h.required)
    /\ Signing(K) = 1..h.required
    /\ \A i \in 1..h.required : K[i].writable = (i <= h.required - h.readonlySigned)
    /\ \A i \in (h.required + 1)..StaticCount(K) :
        K[i].writable = (i <= StaticCount(K) - h.readonlyUnsigned)

KeysAreSound(tx) ==
    /\ tx.keys # <<>> /\ Distinct(tx.keys)
    /\ tx.header = None => WithoutHeader(tx.keys)
    /\ tx.header # None => WithHeader(tx.keys, tx.header)

Required(tx) ==
    IF tx.header = None THEN Cardinality(Signing(tx.keys)) ELSE tx.header.required

Address(tx, i) == tx.keys[i].address
Signers(tx) == {Address(tx, i) : i \in Signing(tx.keys)}

\* The answer is the finalized, successful transaction that was asked for.
ProvenanceIsSound(tx) ==
    /\ tx.finalized /\ tx.sameSlot
    /\ KeysAreSound(tx)
    /\ Len(tx.signatures) = Required(tx) /\ tx.signatures[1] = tx.signature

-----------------------------------------------------------------------------
\* Token balances of the launch, by account.

RowsOf(rows) == {r \in DOMAIN rows : rows[r].mint = Mint}
RowsAreSound(tx, rows) ==
    /\ \A r \in RowsOf(rows) : rows[r].account \in DOMAIN tx.keys
    /\ \A r, s \in RowsOf(rows) : rows[r].account = rows[s].account => r = s

Balances(rows) ==
    [a \in {rows[r].account : r \in RowsOf(rows)} |->
        rows[CHOOSE r \in RowsOf(rows) : rows[r].account = a]]

Touched(tx) == DOMAIN Balances(tx.pre) \cup DOMAIN Balances(tx.post)
Amount(b, a) == IF a \in DOMAIN b THEN b[a].amount ELSE 0
Owner(tx, a) ==
    IF a \in DOMAIN Balances(tx.pre) THEN Balances(tx.pre)[a].owner
    ELSE Balances(tx.post)[a].owner
Delta(tx, a) == Amount(Balances(tx.post), a) - Amount(Balances(tx.pre), a)

\* An account keeps its owner and its decimals.
DeltasAreSound(tx) ==
    \A a \in DOMAIN Balances(tx.pre) \cap DOMAIN Balances(tx.post) :
        LET before == Balances(tx.pre)[a] after == Balances(tx.post)[a]
        IN before.owner = after.owner /\ before.decimals = after.decimals

-----------------------------------------------------------------------------
\* pumpInstructionEvidence.

Listed(tx) == \E i \in DOMAIN tx.keys : Address(tx, i) = Pump
Official(tx) == {ins \in {tx.instructions[i] : i \in DOMAIN tx.instructions} : ins.program = Pump}

Accepted == {"buy", "sell"}
Contracts == Accepted \cup {"buy_exact_sol_in"}   \* the rest are unknown or legacy

HasRequiredAccountPrivileges(tx, ins) ==
    tx.keys[ins.actor].signer /\ tx.keys[ins.account].writable

InstructionIsSound(tx, ins) ==
    /\ Listed(tx) /\ ins.decodes
    /\ ins.name \in Contracts =>
        /\ ins.sound
        /\ {ins.actor, ins.account} \subseteq DOMAIN tx.keys
        /\ HasRequiredAccountPrivileges(tx, ins)
    /\ ins.name \in Accepted /\ ins.mint = Mint =>
        /\ Mint \notin {Address(tx, ins.actor), Address(tx, ins.account)}
        /\ ins.account # ins.actor
        /\ ins.amount > 0

Unsupported(ins) ==
    \/ ins.name = "legacy"
    \/ ins.name \in Contracts \ Accepted /\ ins.mint = Mint

\* The positions of the trades of the launch.
Matches(tx) ==
    {i \in DOMAIN tx.instructions :
        LET ins == tx.instructions[i]
        IN ins.program = Pump /\ ins.name \in Accepted /\ ins.mint = Mint}

-----------------------------------------------------------------------------
\* extractFinalizedActorInputs.

By(tx, a) == {i \in Matches(tx) : Address(tx, tx.instructions[i].actor) = a}
Actors(tx) == {a \in Signers(tx) : By(tx, a) # {}}
Side(tx, a) == tx.instructions[CHOOSE i \in By(tx, a) : TRUE].name
Designated(tx, a) == tx.instructions[CHOOSE i \in By(tx, a) : TRUE].account

\* The instructions of an actor are on one side and one account, its own.
Mixed(tx) ==
    \E i, j \in Matches(tx) :
        LET p == tx.instructions[i] q == tx.instructions[j]
        IN \/ p.actor = q.actor /\ (p.name # q.name \/ p.account # q.account)
           \/ p.account = q.account /\ p.actor # q.actor

\* A signer's tokens moved in an account that no instruction designates.
MutantElsewhere(tx) ==
    \E a \in Touched(tx) :
        Delta(tx, a) # 0 /\ Owner(tx, a) \in Signers(tx) \ Actors(tx)
Elsewhere(tx) ==
    \E a \in Touched(tx) :
        /\ Delta(tx, a) # 0 /\ Owner(tx, a) \in Signers(tx)
        /\ Owner(tx, a) \in Actors(tx) => Designated(tx, Owner(tx, a)) # a

\* The amounts of several instructions of one actor add up.
Instructed(tx, a) ==
    Total([i \in DOMAIN tx.instructions |->
        IF i \in By(tx, a) THEN tx.instructions[i].amount ELSE 0])
ExpectedDelta(tx, a) == IF Side(tx, a) = "buy" THEN Instructed(tx, a) ELSE -Instructed(tx, a)

Reconciled(tx, a) ==
    LET account == Designated(tx, a)
    IN /\ account \in Touched(tx) /\ Owner(tx, account) = a
       /\ Delta(tx, account) = ExpectedDelta(tx, a)

Sound(tx) ==
    /\ ProvenanceIsSound(tx)
    /\ RowsAreSound(tx, tx.pre) /\ RowsAreSound(tx, tx.post)
    /\ \A ins \in Official(tx) : InstructionIsSound(tx, ins) /\ ~Unsupported(ins)
    /\ ~Mixed(tx) /\ DeltasAreSound(tx) /\ ~Elsewhere(tx)
    /\ \A a \in Actors(tx) : Reconciled(tx, a)

Observation(tx, a) ==
    [actor |-> a, side |-> Side(tx, a), amount |-> Instructed(tx, a), at |-> tx.at]

\* An amount that is too large to be kept is left out; a transaction of too
\* many actors is refused.
Extract(tx) ==
    IF ~Sound(tx) THEN {}
    ELSE LET kept == {a \in Actors(tx) : Instructed(tx, a) <= MaxTokenAmount}
         IN {Observation(tx, a) : a \in IF Cardinality(kept) <= MaxActors THEN kept ELSE {}}

=============================================================================
