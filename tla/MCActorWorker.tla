--------------------------- MODULE MCActorWorker ---------------------------
(***************************************************************************)
(* The transactions of the model-checked instance.  Alice and Bob sign;    *)
(* their token accounts are keys 3 and 4, key 5 is another account of      *)
(* Alice's, and key 6 one of the pool, which takes the other side.         *)
(***************************************************************************)
EXTENDS ActorWorker

CONSTANTS Busy    \* the launch that is traded

Key(address, signer) ==
    [address |-> address, signer |-> signer, writable |-> TRUE, source |-> "transaction"]
Keys == <<Key("alice", TRUE), Key("bob", TRUE), Key("a1", FALSE), Key("b1", FALSE),
          Key("a2", FALSE), Key("p1", FALSE), Key("pump", FALSE)>>

Instruction(name, mint, actor, account, amount) ==
    [program |-> "pump", decodes |-> TRUE, name |-> name, sound |-> TRUE,
     mint |-> mint, actor |-> actor, account |-> account, amount |-> amount]
Row(account, owner, amount) ==
    [account |-> account, mint |-> "mint", owner |-> owner, amount |-> amount, decimals |-> 6]
Rows4(a1, b1, a2, p1) ==
    <<Row(3, "alice", a1), Row(4, "bob", b1), Row(5, "alice", a2), Row(6, "pool", p1)>>

\* Alice buys twice, next to an instruction for another mint.
Buy ==
    [finalized |-> TRUE, sameSlot |-> TRUE, keys |-> Keys, header |-> None,
     signature |-> "s", signatures |-> <<"s", "t">>, at |-> 0,
     instructions |-> <<Instruction("buy", "mint", 1, 3, 1),
                        Instruction("buy", "other", 2, 4, 1),
                        Instruction("buy", "mint", 1, 3, 2)>>,
     pre |-> Tail(Rows4(0, 2, 2, 9)), post |-> Rows4(3, 2, 2, 6)]

\* Alice and Bob sell.
AliceSells == Instruction("sell", "mint", 1, 3, 1)
BobSells == Instruction("sell", "mint", 2, 4, 1)
Sell == [Buy EXCEPT
    !.at = 2, !.instructions = <<AliceSells, BobSells>>,
    !.pre = Rows4(3, 2, 2, 6), !.post = Rows4(2, 1, 2, 8)]

\* What may be wrong with such a transaction.
Refused == <<
    \* Alice's other account takes what she sells; so does Bob's, untouched by
    \* an instruction; an account changes hands; a balance is told twice.
    [Sell EXCEPT !.post = Rows4(2, 1, 3, 7)],
    [Sell EXCEPT !.instructions = <<AliceSells>>],
    [Sell EXCEPT !.post = [Rows4(2, 1, 2, 8) EXCEPT ![1].owner = "bob"]],
    [Sell EXCEPT !.post = Append(@, Row(3, "alice", 2))],
    \* The amounts disagree; one account is sold from by both; both sides.
    [Sell EXCEPT !.post = Rows4(1, 1, 2, 9)],
    [Sell EXCEPT !.instructions = <<AliceSells, Instruction("sell", "mint", 2, 3, 1)>>],
    [Sell EXCEPT !.instructions = <<AliceSells, BobSells, Instruction("buy", "mint", 1, 3, 1)>>],
    \* Instructions that are not understood.
    [Sell EXCEPT !.instructions = Append(@, Instruction("legacy", "mint", 1, 3, 1))],
    [Sell EXCEPT !.instructions = Append(@, Instruction("buy_exact_sol_in", "mint", 1, 3, 1))],
    [Sell EXCEPT !.instructions[1].sound = FALSE],
    [Sell EXCEPT !.keys = SubSeq(Keys, 1, 6)],
    \* Not the transaction that was asked for, or not signed as it says.
    [Sell EXCEPT !.signatures = <<"t", "s">>],
    [Sell EXCEPT !.sameSlot = FALSE],
    [Sell EXCEPT !.keys = [Keys EXCEPT ![2].signer = FALSE]],
    [Sell EXCEPT !.header = [required |-> 2, readonlySigned |-> 0, readonlyUnsigned |-> 1]],
    \* Too large an amount.
    [Buy EXCEPT !.instructions = <<Instruction("buy", "mint", 1, 3, 4)>>,
                !.post = Rows4(4, 2, 2, 5)]>>

\* And one after the early window.
Transactions == <<Buy, Sell, [Buy EXCEPT !.at = 3]>> \o Refused

\* One launch has all of them, the other those that show nothing.
SignedBy == [m \in Mints |-> IF m = Busy THEN DOMAIN Transactions ELSE 3..Len(Transactions)]

=============================================================================
