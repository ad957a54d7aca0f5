---------------------------- MODULE ResponsePipe ----------------------------
(***************************************************************************)
(* The prompt ledger of one ELM327 connection                              *)
(* (transport/elm327/pipe.py): a record and the operations on it.  The     *)
(* text the adapter sends is a sequence of tokens.  A token is a record    *)
(* with a kind: "prompt" is the > that closes a block, "pending" a line    *)
(* 7F xx 78, every other kind the text of one reply.  What else a token    *)
(* holds is up to the module that uses the pipe.                           *)
(*                                                                         *)
(* tail is _buf during a collection and carry between two.  It never holds *)
(* a prompt, so the harvest that begin() makes of the carry finds nothing. *)
(***************************************************************************)
EXTENDS Naturals, SequencesExt

CONSTANT MaxOwed    \* MAX_OWED_PROMPTS

ASSUME MaxOwedAssumption == MaxOwed \in Nat \ {0}

FreshPipe == [owed |-> 0, dirty |-> FALSE, tail |-> <<>>, done |-> <<>>]

\* A count that is trusted however large it grows.
ResyncOnlyWithoutDebt(p) == p.dirty /\ p.owed = 0

NeedsResync(p) == p.dirty /\ ~(0 < p.owed /\ p.owed < MaxOwed)

\* A resync that forgets to zero the ledger after the drain.
ClearDirtyOnly(p) == [p EXCEPT !.dirty = FALSE, !.tail = <<>>]

ClearBacklog(p) == [p EXCEPT !.dirty = FALSE, !.owed = 0, !.tail = <<>>]

\* A collection that starts from an empty buffer and tears a half-read block.
BeginDropsCarry(p) == [p EXCEPT !.owed = @ + 1, !.tail = <<>>, !.done = <<>>]

Begin(p) == [p EXCEPT !.owed = @ + 1, !.done = <<>>]

IsPending(block) == block # <<>> /\ Last(block).kind = "pending"

\* One token: text grows the tail; a prompt completes it, and a completed
\* block that ends in a pending line is dropped without paying anything.
Absorb(p, t) ==
    IF t.kind # "prompt" THEN [p EXCEPT !.tail = Append(@, t)]
    ELSE IF IsPending(p.tail) THEN [p EXCEPT !.tail = <<>>]
    ELSE [p EXCEPT !.done = Append(@, p.tail), !.tail = <<>>]

\* The pipe after each of the tokens that arrive together.
Harvest(p, tokens) ==
    LET after[i \in 0..Len(tokens)] ==
            IF i = 0 THEN p ELSE Absorb(after[i - 1], tokens[i])
    IN  after

Feed(p, tokens) ==
    LET harvested == Harvest(p, tokens)[Len(tokens)]
    IN  [p EXCEPT !.tail = harvested.tail, !.done = harvested.done]

Satisfied(p) == Len(p.done) >= p.owed

\* The first block to have been completed is taken for the answer.
OldestBlock(p) == IF p.done # <<>> THEN Head(p.done) ELSE p.tail

\* What a collection returns: the newest completed block, else what there is.
Block(p) == IF p.done # <<>> THEN Last(p.done) ELSE p.tail

\* An abandoned command's prompt is forgotten with its command.
FinishForgets(p) ==
    [p EXCEPT !.dirty = p.done = <<>>, !.owed = 0, !.done = <<>>]

\* A completed block settles the whole ledger; otherwise the debt stands.
Finish(p) ==
    [p EXCEPT !.dirty = p.done = <<>>,
              !.owed = IF p.done # <<>> THEN 0 ELSE @,
              !.done = <<>>]
=============================================================================
