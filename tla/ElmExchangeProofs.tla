-------------------------- MODULE ElmExchangeProofs -------------------------
(***************************************************************************)
(* The prompt ledger of one connection, for every cycle, every retry count *)
(* and any number of replies in flight, faults and cancellations.          *)
(*                                                                         *)
(* LedgerInv carries the ceiling on the count and needs nothing of the     *)
(* text: what it adds to LedgerBound is what a collection finds when it    *)
(* starts.  TextInv carries the promises about what the count means.  It   *)
(* says that the text in flight is framed (a reply's text, then its        *)
(* prompt), that the count equals the replies completed, read, on their    *)
(* way and due, and that the last of all these is the own command's.  Each *)
(* is kept by the harvest token by token, and a harvest of any length      *)
(* follows by induction.                                                   *)
(***************************************************************************)
EXTENDS ElmExchange, ResponsePipeProofs

-----------------------------------------------------------------------------
(* The ceiling *)


\* The fields of the ledger.
PipeShape ==
    /\ {"owed", "dirty", "tail", "done"} \subseteq DOMAIN pipe
    /\ pipe.owed \in Nat
    /\ pipe.dirty \in BOOLEAN

\* While a command waits its own prompt is owed, over the debt it began with;
\* a probe begins with none.
LedgerInv ==
    /\ PipeShape
    /\ cancelled \in Nat
    /\ phase \in {"idle", "collect", "drain", "probe", "down"}
    /\ LedgerBound
    /\ phase \in {"collect", "probe"} =>
           IF pipe.dirty THEN pipe.owed > 1 ELSE pipe.owed = cancelled + 1
    /\ phase = "probe" => ~pipe.dirty /\ cancelled = 0

\* A fresh pipe and an empty ledger satisfy the invariant.
LEMMA InitLedger == Init => LedgerInv
BY MaxOwedAssumption
   DEF Init, LedgerInv, LedgerBound, PipeShape, FreshPipe

\* begin() adds the command's own prompt, sent or lost on the way.
LEMMA TransmitLedger ==
    ASSUME NEW p, PipeShape, Transmit(p, pipe)
    PROVE  /\ PipeShape'
           /\ pipe'.owed = pipe.owed + 1
           /\ pipe'.dirty = pipe.dirty
BY DEF Transmit, PipeShape, Begin

\* finish() settles the ledger or lets it stand.
LEMMA FinishLedger ==
    ASSUME PipeShape, pipe' = Finish(pipe)
    PROVE  /\ PipeShape'
           /\ pipe.done # <<>> => pipe'.owed = 0 /\ pipe'.dirty = FALSE
           /\ pipe.done = <<>> => pipe'.owed = pipe.owed /\ pipe'.dirty = TRUE
BY DEF PipeShape, Finish

\* Every step keeps the invariant.
LEMMA StepLedger == LedgerInv /\ [Next]_vars => LedgerInv'
<1> SUFFICES ASSUME LedgerInv, [Next]_vars PROVE LedgerInv'
  OBVIOUS
<1> USE MaxOwedAssumption
<1>0. PipeShape /\ cancelled \in Nat
  BY DEF LedgerInv
<1>1. CASE Send
  <2>1. ~NeedsResync(pipe) /\ phase = "idle" /\ phase' = "collect" /\ cancelled' = cancelled
    BY <1>1 DEF Send
  <2>2. PICK p : Transmit(p, pipe)
    BY <1>1 DEF Send
  <2>3. PipeShape' /\ pipe'.owed = pipe.owed + 1 /\ pipe'.dirty = pipe.dirty
    BY <1>0, <2>2, TransmitLedger
  <2> QED
    BY <2>1, <2>3 DEF LedgerInv, LedgerBound, NeedsResync, PipeShape
<1>2. CASE Receive
  <2>1. PICK n \in 1..Len(wire) : pipe' = Feed(pipe, SubSeq(wire, 1, n))
    BY <1>2 DEF Receive
  <2>2. PipeShape' /\ pipe'.owed = pipe.owed /\ pipe'.dirty = pipe.dirty
    BY <1>0, <2>1 DEF Feed, PipeShape
  <2>3. phase' = phase /\ cancelled' = cancelled /\ phase \in {"collect", "probe"}
    BY <1>2 DEF Receive
  <2> QED
    BY <2>2, <2>3 DEF LedgerInv, LedgerBound
<1>3. CASE Conclude
  <2>1. /\ PipeShape'
        /\ pipe.done # <<>> => pipe'.owed = 0 /\ pipe'.dirty = FALSE
        /\ pipe.done = <<>> => pipe'.owed = pipe.owed /\ pipe'.dirty = TRUE
    BY <1>0, <1>3, FinishLedger DEF Conclude
  <2>2. /\ phase = "collect" /\ phase' \in {"idle", "drain"}
        /\ cancelled' = IF pipe.done # <<>> THEN 0 ELSE cancelled
    BY <1>3 DEF Conclude
  <2> QED
    BY <2>1, <2>2 DEF LedgerInv, LedgerBound, PipeShape
<1>4. CASE Probe
  <2>1. /\ phase' = "probe" /\ cancelled' = 0
        /\ pipe' = Begin(ClearBacklog(pipe))
    BY <1>4 DEF Probe
  <2> DEFINE cleared == ClearBacklog(pipe)
  <2>2. /\ DOMAIN cleared = DOMAIN pipe
        /\ cleared.owed = 0 /\ cleared.dirty \in BOOLEAN /\ ~cleared.dirty
    BY <1>0 DEF ClearBacklog, PipeShape
  <2>3. pipe' = [cleared EXCEPT !.owed = cleared.owed + 1, !.done = <<>>]
    BY <2>1 DEF Begin
  <2> HIDE DEF cleared
  <2>4. DOMAIN pipe' = DOMAIN pipe
    BY <2>2, <2>3
  <2>5. pipe'.owed = 1
    BY <1>0, <2>2, <2>3 DEF PipeShape
  <2>6. pipe'.dirty \in BOOLEAN /\ ~pipe'.dirty
    BY <1>0, <2>2, <2>3 DEF PipeShape
  <2>7. PipeShape'
    BY <1>0, <2>4, <2>5, <2>6 DEF PipeShape
  <2> QED
    BY <2>1, <2>5, <2>6, <2>7 DEF LedgerInv, LedgerBound
<1>5. CASE ProbeEnds
  <2>1. /\ PipeShape'
        /\ pipe.done # <<>> => pipe'.owed = 0 /\ pipe'.dirty = FALSE
        /\ pipe.done = <<>> => pipe'.owed = pipe.owed /\ pipe'.dirty = TRUE
    BY <1>0, <1>5, FinishLedger DEF ProbeEnds
  <2>2. /\ phase = "probe" /\ cancelled' = cancelled
        /\ phase' = "down" \/ (phase' = "idle" /\ pipe.done # <<>>)
    BY <1>5 DEF ProbeEnds
  <2> QED
    BY <2>1, <2>2 DEF LedgerInv, LedgerBound, PipeShape
<1>6. CASE Cancel
  <2>1. CASE phase \in {"collect", "probe"}
    <3>1. /\ cancelled' = cancelled + 1 /\ phase' = "idle"
          /\ pipe' = [pipe EXCEPT !.tail = <<>>, !.done = <<>>]
      BY <1>6, <2>1 DEF Cancel
    <3>2. PipeShape' /\ pipe'.owed = pipe.owed /\ pipe'.dirty = pipe.dirty
      BY <1>0, <3>1 DEF PipeShape
    <3> QED
      BY <2>1, <3>1, <3>2 DEF LedgerInv, LedgerBound, PipeShape
  <2>2. CASE phase = "drain"
    BY <1>6, <2>2 DEF Cancel, LedgerInv, LedgerBound, PipeShape
  <2> QED
    BY <1>6, <2>1, <2>2 DEF Cancel
<1>7. CASE Connect
  BY <1>7 DEF Connect, LedgerInv, LedgerBound, PipeShape, FreshPipe
<1>9. CASE CancelSend
  <2>1. /\ cancelled' = cancelled /\ phase' = phase /\ phase = "idle"
        /\ pipe' = [pipe EXCEPT !.tail = Disown(@)]
    BY <1>9 DEF CancelSend
  <2>2. PipeShape' /\ pipe'.owed = pipe.owed /\ pipe'.dirty = pipe.dirty
    BY <1>0, <2>1 DEF PipeShape
  <2> QED
    BY <2>1, <2>2 DEF LedgerInv, LedgerBound
<1>8. CASE StartResync
  BY <1>8 DEF StartResync, LedgerInv, LedgerBound, PipeShape
<1>10. CASE Drain \/ LinkDrops \/ Adapter \/ UNCHANGED vars
  BY <1>10 DEF Drain, LinkDrops, Adapter, Answers, AnswersPending, LosesReply, ResetsItself,
              vars, LedgerInv, LedgerBound, PipeShape
<1> QED
  BY <1>1, <1>2, <1>3, <1>4, <1>5, <1>6, <1>7, <1>8, <1>9, <1>10 DEF Next, Terminal

\* Everything that follows rests on this invariant of the ledger.
THEOREM LedgerInvariant == Spec => []LedgerInv
BY InitLedger, StepLedger, PTL DEF Spec

\* The ledger never counts past its ceiling, but for commands cancelled in a
\* row, and a dirty pipe always has a debt (pipe.py MAX_OWED_PROMPTS).
THEOREM LedgerBounded == Spec => []LedgerBound
<1>1. LedgerInv => LedgerBound
  BY DEF LedgerInv
<1> QED
  BY <1>1, LedgerInvariant, PTL

-----------------------------------------------------------------------------
(* Text *)

\* The terminal's ResponsePipe.
Pipe == [owed : Nat, dirty : BOOLEAN, tail : Seq(Token), done : Seq(Seq(Token))]

\* The bounds are numbers.
LEMMA CycleNat == Cycle \in Nat \ {0} /\ MaxCancels \in Nat /\ Retries \in Nat
BY ExchangeAssumption

\* The text of a reply, as opposed to an announcement of one.
Textual(t) == t.kind \in {"answer", "nodata", "banner"}
Closes(t) == t.kind = "prompt"
NoText(s) == \A i \in DOMAIN s : ~Textual(s[i])

-----------------------------------------------------------------------------
(* Counting texts *)

TextAt(s) == {i \in DOMAIN s : Textual(s[i])}

\* The texts of a sequence are a finite set of its positions.
LEMMA TextsFinite ==
    ASSUME NEW S, NEW s \in Seq(S)
    PROVE  /\ IsFiniteSet(TextAt(s)) /\ TextAt(s) \subseteq 1..Len(s)
           /\ Texts(s) = Cardinality(TextAt(s))
           /\ Texts(s) \in Nat
<1>1. DOMAIN s = 1..Len(s) /\ Len(s) \in Nat
  OBVIOUS
<1>2. TextAt(s) \in SUBSET (1..Len(s))
  BY <1>1 DEF TextAt
<1>3. IsFiniteSet(TextAt(s))
  <2>1. IsFiniteSet(1..Len(s))
    BY <1>1, FS_Interval
  <2> QED
    BY <1>2, <2>1, FS_Subset
<1>4. Texts(s) = Cardinality(TextAt(s))
  BY DEF Texts, TextAt, Textual
<1> QED
  <2>1. Cardinality(TextAt(s)) \in Nat
    BY <1>3, FS_CardinalityType
  <2> QED
    BY <1>2, <1>3, <1>4, <2>1

\* No text, no count; and the other way round.
LEMMA TextsNone ==
    ASSUME NEW S, NEW s \in Seq(S)
    PROVE  Texts(s) = 0 <=> NoText(s)
<1>1. TextAt(s) = {} <=> NoText(s)
  BY DEF TextAt, NoText
<1> QED
  BY <1>1, TextsFinite, FS_EmptySet

\* One more token counts for one if it is a text.
LEMMA TextsAppend ==
    ASSUME NEW S, NEW s \in Seq(S), NEW e \in S
    PROVE  Texts(Append(s, e)) = Texts(s) + (IF Textual(e) THEN 1 ELSE 0)
<1> DEFINE t == Append(s, e)
<1>1. /\ t \in Seq(S) /\ Len(t) = Len(s) + 1 /\ Len(s) \in Nat
      /\ \A i \in 1..Len(s) : t[i] = s[i]
      /\ t[Len(s) + 1] = e
      /\ DOMAIN t = 1..(Len(s) + 1) /\ DOMAIN s = 1..Len(s)
  OBVIOUS
<1> HIDE DEF t
<1>2. TextAt(t) = IF Textual(e) THEN TextAt(s) \cup {Len(s) + 1} ELSE TextAt(s)
  BY <1>1 DEF TextAt
<1>3. IsFiniteSet(TextAt(s)) /\ Len(s) + 1 \notin TextAt(s) /\ Texts(s) = Cardinality(TextAt(s))
      /\ Texts(s) \in Nat
  BY <1>1, TextsFinite
<1>4. Texts(t) = Cardinality(TextAt(t))
  BY <1>1, TextsFinite
<1>5. Texts(t) = Texts(s) + (IF Textual(e) THEN 1 ELSE 0)
  <2>1. Cardinality(TextAt(s) \cup {Len(s) + 1}) = Cardinality(TextAt(s)) + 1
    BY <1>3, FS_AddElement
  <2> QED
    BY <1>2, <1>3, <1>4, <2>1
<1> QED
  BY <1>5 DEF t

\* The empty sequence has no text, and a single token at most one.
LEMMA TextsOne ==
    /\ Texts(<<>>) = 0
    /\ \A e : Texts(<<e>>) = IF Textual(e) THEN 1 ELSE 0
<1>1. Texts(<<>>) = 0
  <2>1. <<>> \in Seq({0}) /\ NoText(<<>>)
    BY DEF NoText
  <2> QED
    BY <2>1, TextsNone
<1>2. ASSUME NEW e PROVE Texts(<<e>>) = IF Textual(e) THEN 1 ELSE 0
  <2>1. <<>> \in Seq({e}) /\ e \in {e} /\ <<e>> = Append(<<>>, e)
    OBVIOUS
  <2>2. Texts(Append(<<>>, e)) = Texts(<<>>) + (IF Textual(e) THEN 1 ELSE 0)
    BY <2>1, TextsAppend
  <2> QED
    BY <2>1, <2>2, <1>1
<1> QED
  BY <1>1, <1>2

\* Moving every position of a finite set one place down does not change its size.
LEMMA ShiftDown ==
    ASSUME NEW I \in SUBSET (Nat \ {0}), IsFiniteSet(I)
    PROVE  /\ IsFiniteSet({i - 1 : i \in I})
           /\ Cardinality({i - 1 : i \in I}) = Cardinality(I)
<1> DEFINE J == {i - 1 : i \in I}
           f == [i \in I |-> i - 1]
<1>1. f \in Bijection(I, J)
  <2>1. f \in [I -> J]
    OBVIOUS
  <2>2. \A x, y \in I : f[x] = f[y] => x = y
    OBVIOUS
  <2>3. \A j \in J : \E x \in I : f[x] = j
    OBVIOUS
  <2> HIDE DEF f, J
  <2> QED
    BY <2>1, <2>2, <2>3 DEF Bijection, Injection, Surjection, IsInjective
<1>2. ExistsBijection(I, J)
  BY <1>1 DEF ExistsBijection
<1> HIDE DEF J
<1>3. IsFiniteSet(J) /\ Cardinality(J) = Cardinality(I)
  BY <1>2, FS_Bijection
<1> QED
  BY <1>3 DEF J

\* So does the first token.
LEMMA TextsTail ==
    ASSUME NEW S, NEW s \in Seq(S), s # <<>>
    PROVE  Texts(s) = Texts(Tail(s)) + (IF Textual(s[1]) THEN 1 ELSE 0)
<1> DEFINE t == Tail(s)
           later == TextAt(s) \ {1}
<1>1. /\ t \in Seq(S) /\ Len(t) = Len(s) - 1 /\ Len(s) \in Nat \ {0}
      /\ \A i \in 1..Len(t) : t[i] = s[i + 1]
      /\ DOMAIN t = 1..Len(t) /\ DOMAIN s = 1..Len(s)
  OBVIOUS
<1> HIDE DEF t
<1>2. /\ IsFiniteSet(TextAt(s)) /\ TextAt(s) \subseteq 1..Len(s)
      /\ Texts(s) = Cardinality(TextAt(s)) /\ Texts(s) \in Nat
  BY TextsFinite
<1>3. /\ IsFiniteSet(later)
      /\ Cardinality(later) = IF 1 \in TextAt(s) THEN Texts(s) - 1 ELSE Texts(s)
  BY <1>2, FS_RemoveElement
<1>4. 1 \in TextAt(s) <=> Textual(s[1])
  BY <1>1 DEF TextAt
<1>5. {i - 1 : i \in later} = TextAt(t)
  <2>1. \A i \in later : i - 1 \in TextAt(t)
    BY <1>1, <1>2 DEF TextAt
  <2>2. \A j \in TextAt(t) : j + 1 \in later /\ (j + 1) - 1 = j
    BY <1>1 DEF TextAt
  <2> HIDE DEF later
  <2> QED
    BY <2>1, <2>2
<1>6. later \in SUBSET (Nat \ {0})
  BY <1>2
<1>7. Texts(t) = Cardinality(TextAt(t))
  BY <1>1, TextsFinite
<1>8. Texts(t) = Cardinality(later)
  <2> HIDE DEF later
  <2> QED
    BY <1>3, <1>5, <1>6, <1>7, ShiftDown
<1>9. Texts(s) = Texts(t) + (IF Textual(s[1]) THEN 1 ELSE 0)
  BY <1>2, <1>3, <1>4, <1>8
<1> QED
  BY <1>9 DEF t

\* Disowning tokens changes neither their number nor their text.
LEMMA Disowned ==
    ASSUME NEW s \in Seq(Token)
    PROVE  /\ Disown(s) \in Seq(Token) /\ Len(Disown(s)) = Len(s)
           /\ \A i \in 1..Len(s) : Disown(s)[i] = [s[i] EXCEPT !.own = FALSE]
           /\ Texts(Disown(s)) = Texts(s)
<1>1. DOMAIN s = 1..Len(s) /\ Len(s) \in Nat /\ \A i \in 1..Len(s) : s[i] \in Token
  OBVIOUS
<1>2. \A i \in 1..Len(s) : /\ [s[i] EXCEPT !.own = FALSE] \in Token
                            /\ [s[i] EXCEPT !.own = FALSE].kind = s[i].kind
  BY <1>1 DEF Token
<1>3. Disown(s) = [i \in 1..Len(s) |-> [s[i] EXCEPT !.own = FALSE]]
  BY <1>1 DEF Disown
<1> DEFINE t == Disown(s)
<1>4. /\ t \in Seq(Token) /\ Len(t) = Len(s) /\ DOMAIN t = 1..Len(s)
      /\ \A i \in 1..Len(s) : t[i] = [s[i] EXCEPT !.own = FALSE]
  BY <1>1, <1>2, <1>3
<1>5. TextAt(t) = TextAt(s)
  <2> HIDE DEF t
  <2> QED
    BY <1>1, <1>2, <1>4 DEF TextAt, Textual
<1> QED
  BY <1>4, <1>5, TextsFinite

\* The same for the requests.
LEMMA DisownedRequests ==
    ASSUME NEW s \in Seq(Request)
    PROVE  /\ Disown(s) \in Seq(Request) /\ Len(Disown(s)) = Len(s)
           /\ \A i \in 1..Len(s) : ~Disown(s)[i].own
<1>1. DOMAIN s = 1..Len(s) /\ Len(s) \in Nat /\ \A i \in 1..Len(s) : s[i] \in Request
  OBVIOUS
<1>2. \A i \in 1..Len(s) : /\ [s[i] EXCEPT !.own = FALSE] \in Request
                            /\ ~[s[i] EXCEPT !.own = FALSE].own
  BY <1>1 DEF Request
<1>3. Disown(s) = [i \in 1..Len(s) |-> [s[i] EXCEPT !.own = FALSE]]
  BY <1>1 DEF Disown
<1> DEFINE t == Disown(s)
<1>4. /\ t \in Seq(Request) /\ Len(t) = Len(s)
      /\ \A i \in 1..Len(s) : t[i] = [s[i] EXCEPT !.own = FALSE]
  BY <1>1, <1>2, <1>3
<1> QED
  BY <1>2, <1>4

\* t is s with a reply of request r, or its announcement, printed after it.
Printed(t, s, kind, r) ==
    /\ t \in Seq(Token) /\ Len(t) = Len(s) + 2
    /\ \A i \in 1..Len(s) : t[i] = s[i]
    /\ t[Len(s) + 1] = [kind |-> kind, of |-> r.of, own |-> r.own]
    /\ t[Len(s) + 2] = [kind |-> "prompt", of |-> r.of, own |-> r.own]
    /\ kind \in {"answer", "nodata", "banner"} => Texts(t) = Texts(s) + 1
    /\ kind = "pending" => Texts(t) = Texts(s)

\* What the adapter prints is one text, or none, and its prompt.
LEMMA FramedTokens ==
    ASSUME NEW kind \in Kind, NEW r \in Request, NEW s \in Seq(Token)
    PROVE  Printed(s \o Framed(kind, r), s, kind, r)
<1> DEFINE text == [kind |-> kind, of |-> r.of, own |-> r.own]
           prompt == [kind |-> "prompt", of |-> r.of, own |-> r.own]
<1>1. text \in Token /\ prompt \in Token /\ text.kind = kind /\ prompt.kind = "prompt"
  BY DEF Token, Request, Kind
<1> HIDE DEF text, prompt
<1>2. s \o <<text, prompt>> = Append(Append(s, text), prompt)
  BY <1>1
<1> DEFINE t == s \o Framed(kind, r)
<1>6. t = Append(Append(s, text), prompt)
  BY <1>2 DEF Framed, text, prompt
<1> HIDE DEF t
<1>3. Append(s, text) \in Seq(Token)
  BY <1>1
<1>4. /\ kind \in {"answer", "nodata", "banner"} => Texts(t) = Texts(s) + 1
      /\ kind = "pending" => Texts(t) = Texts(s)
  <2>1. Texts(t) = Texts(Append(s, text))
    <3>1. Texts(t) = Texts(Append(s, text)) + (IF Textual(prompt) THEN 1 ELSE 0)
      BY <1>1, <1>3, <1>6, TextsAppend
    <3>2. ~Textual(prompt)
      BY <1>1 DEF Textual
    <3>3. Texts(Append(s, text)) \in Nat
      BY <1>3, TextsFinite
    <3> QED
      BY <3>1, <3>2, <3>3
  <2>2. Texts(Append(s, text)) = Texts(s) + (IF Textual(text) THEN 1 ELSE 0)
    BY <1>1, TextsAppend
  <2>3. Texts(s) \in Nat
    BY TextsFinite
  <2> QED
    BY <2>1, <2>2, <2>3, <1>1 DEF Textual
<1>5. /\ t \in Seq(Token) /\ Len(t) = Len(s) + 2
      /\ \A i \in 1..Len(s) : t[i] = s[i]
      /\ t[Len(s) + 1] = text
      /\ t[Len(s) + 2] = prompt
  BY <1>1, <1>6
<1> QED
  BY <1>4, <1>5 DEF Printed, text, prompt, t

-----------------------------------------------------------------------------
(* One token of the harvest *)

\* The tail is the text of at most one reply, and the tokens that follow it complete it
\* and then come in pairs, a text and its prompt.
Framing(tail, tokens) ==
    /\ Len(tail) <= 1
    /\ \A i \in 1..Len(tail) : ~Closes(tail[i])
    /\ tokens = <<>> => tail = <<>>
    /\ tokens # <<>> => (Closes(tokens[1]) <=> tail # <<>>) /\ Closes(tokens[Len(tokens)])
    /\ \A i \in 1..(Len(tokens) - 1) : Closes(tokens[i]) <=> ~Closes(tokens[i + 1])

\* Every completed block is the text of one reply.
WholeBlocks(done) == \A i \in 1..Len(done) : Len(done[i]) = 1 /\ Textual(done[i][1])

\* Of all replies that are completed, read, on their way or due, the last is the own one.
OwnIsLast(p, tokens, requests) ==
    /\ \A i \in 1..Len(requests) : requests[i].own <=> i = Len(requests)
    /\ \A i \in 1..Len(tokens) : Textual(tokens[i]) =>
          (tokens[i].own <=> /\ requests = <<>>
                             /\ \A j \in (i + 1)..Len(tokens) : ~Textual(tokens[j]))
    /\ \A i \in 1..Len(p.tail) : Textual(p.tail[i]) =>
          (p.tail[i].own <=> requests = <<>> /\ NoText(tokens))
    /\ \A i \in 1..Len(p.done) :
          p.done[i][1].own <=> /\ i = Len(p.done)
                               /\ requests = <<>> /\ NoText(tokens) /\ NoText(p.tail)

\* What one token does to the tail and to the blocks.
LEMMA AbsorbCases ==
    ASSUME NEW p \in Pipe, NEW t \in Token
    PROVE  /\ Absorb(p, t) \in Pipe
           /\ Absorb(p, t).owed = p.owed /\ Absorb(p, t).dirty = p.dirty
           /\ ~Closes(t) => /\ Absorb(p, t).tail = Append(p.tail, t)
                            /\ Absorb(p, t).done = p.done
           /\ Closes(t) => /\ Absorb(p, t).tail = <<>>
                           /\ Absorb(p, t).done = IF IsPending(p.tail) THEN p.done
                                                  ELSE Append(p.done, p.tail)
<1>1. /\ p.tail \in Seq(Token) /\ p.done \in Seq(Seq(Token))
      /\ Append(p.tail, t) \in Seq(Token) /\ Append(p.done, p.tail) \in Seq(Seq(Token))
      /\ <<>> \in Seq(Token)
  BY DEF Pipe
<1>2. CASE ~Closes(t)
  <2>1. Absorb(p, t) = [p EXCEPT !.tail = Append(@, t)]
    BY <1>2 DEF Absorb, Closes
  <2> QED
    BY <1>1, <1>2, <2>1 DEF Pipe
<1>3. CASE Closes(t) /\ IsPending(p.tail)
  <2>1. Absorb(p, t) = [p EXCEPT !.tail = <<>>]
    BY <1>3 DEF Absorb, Closes
  <2> QED
    BY <1>1, <1>3, <2>1 DEF Pipe
<1>4. CASE Closes(t) /\ ~IsPending(p.tail)
  <2>1. Absorb(p, t) = [p EXCEPT !.done = Append(@, p.tail), !.tail = <<>>]
    BY <1>4 DEF Absorb, Closes
  <2> QED
    BY <1>1, <1>4, <2>1 DEF Pipe
<1> QED
  BY <1>2, <1>3, <1>4

\* A sequence of at most one element that is not empty.
LEMMA OneElement ==
    ASSUME NEW S, NEW s \in Seq(S), s # <<>>, Len(s) <= 1
    PROVE  Len(s) = 1 /\ s[1] \in S /\ s = <<s[1]>> /\ DOMAIN s = 1..1
<1> DEFINE n == Len(s)
<1>1. n \in Nat
  OBVIOUS
<1>2. n # 0
  OBVIOUS
<1>3. n <= 1
  OBVIOUS
<1>4. n = 1
  <2> HIDE DEF n
  <2> QED
    BY <1>1, <1>2, <1>3
<1>5. s[1] \in S
  BY <1>4
<1>6. s = <<s[1]>>
  BY <1>4
<1>7. DOMAIN s = 1..1
  BY <1>4
<1> QED
  BY <1>4, <1>5, <1>6, <1>7

\* A tail that is framed holds one reply's text, or the announcement of one, or nothing.
LEMMA FramedTail ==
    ASSUME NEW tail \in Seq(Token), NEW tokens, Framing(tail, tokens), tail # <<>>
    PROVE  /\ Len(tail) = 1 /\ tail[1] \in Token /\ tail = <<tail[1]>>
           /\ IsPending(tail) <=> ~Textual(tail[1])
           /\ Texts(tail) = IF IsPending(tail) THEN 0 ELSE 1
           /\ NoText(tail) <=> IsPending(tail)
<1>1. Len(tail) = 1 /\ tail[1] \in Token /\ tail = <<tail[1]>> /\ DOMAIN tail = 1..1
  <2>1. Len(tail) <= 1
    BY DEF Framing
  <2> QED
    BY <2>1, OneElement
<1>2. IsPending(tail) <=> tail[1].kind = "pending"
  BY <1>1 DEF IsPending, Last
<1>3. tail[1].kind \in Kind \ {"prompt"}
  BY <1>1 DEF Framing, Closes, Token
<1>4. IsPending(tail) <=> ~Textual(tail[1])
  BY <1>2, <1>3 DEF Textual, Kind
<1>5. Texts(<<tail[1]>>) = IF Textual(tail[1]) THEN 1 ELSE 0
  BY <1>1, TextsOne
<1>6. Texts(tail) = IF Textual(tail[1]) THEN 1 ELSE 0
  BY <1>1, <1>5
<1>8. NoText(tail) <=> ~Textual(tail[1])
  BY <1>1 DEF NoText
<1> QED
  BY <1>1, <1>4, <1>6, <1>8

\* The replies completed, read and on their way.
Seen(p, tokens) == Len(p.done) + Texts(p.tail) + Texts(tokens)

\* The framing, the number of replies, the wholeness of blocks and the place of the own
\* reply survive every token.
LEMMA AbsorbFramed ==
    ASSUME NEW p \in Pipe, NEW w \in Seq(Token), w # <<>>, Framing(p.tail, w)
    PROVE  /\ Framing(Absorb(p, w[1]).tail, Tail(w))
           /\ Seen(Absorb(p, w[1]), Tail(w)) = Seen(p, w)
           /\ WholeBlocks(p.done) => WholeBlocks(Absorb(p, w[1]).done)
<1> DEFINE q == Absorb(p, w[1])
           rest == Tail(w)
<1>1. /\ rest \in Seq(Token) /\ Len(rest) = Len(w) - 1 /\ Len(w) \in Nat \ {0}
      /\ \A i \in 1..Len(rest) : rest[i] = w[i + 1]
      /\ DOMAIN rest = 1..Len(rest) /\ DOMAIN w = 1..Len(w) /\ w[1] \in Token
  OBVIOUS
<1>2. p.tail \in Seq(Token) /\ p.done \in Seq(Seq(Token))
  BY DEF Pipe
<1>3. /\ q \in Pipe
      /\ ~Closes(w[1]) => q.tail = Append(p.tail, w[1]) /\ q.done = p.done
      /\ Closes(w[1]) => q.tail = <<>> /\ q.done = IF IsPending(p.tail) THEN p.done
                                                  ELSE Append(p.done, p.tail)
  BY <1>1, AbsorbCases
<1>4. Texts(w) = Texts(rest) + (IF Textual(w[1]) THEN 1 ELSE 0)
  BY TextsTail
<1>5. Texts(<<>>) = 0
  BY TextsOne
<1>6. Texts(rest) \in Nat /\ Texts(w) \in Nat /\ Texts(p.tail) \in Nat
  BY <1>1, <1>2, TextsFinite
<1> HIDE DEF q, rest
<1>7. CASE ~Closes(w[1])
  <2>1. p.tail = <<>>
    BY <1>7 DEF Framing
  <2>2. q.tail = <<w[1]>> /\ q.done = p.done
    BY <1>3, <1>7, <2>1
  <2>3. Len(rest) >= 1 /\ Closes(rest[1])
    <3>1. Closes(w[Len(w)])
      BY DEF Framing
    <3>2. Len(w) # 1
      BY <3>1, <1>7
    <3>3. 1 \in 1..(Len(w) - 1)
      BY <3>2, <1>1
    <3>4. Closes(w[2])
      BY <3>3, <1>7 DEF Framing
    <3> QED
      BY <3>3, <3>4, <1>1
  <2>4. Framing(q.tail, rest)
    BY <1>1, <1>7, <2>2, <2>3 DEF Framing
  <2>5. Texts(q.tail) = IF Textual(w[1]) THEN 1 ELSE 0
    BY <2>2, TextsOne
  <2> QED
    BY <2>1, <2>2, <2>4, <2>5, <1>4, <1>5, <1>6, <1>2 DEF Seen, q, rest
<1>8. CASE Closes(w[1])
  <2>1. p.tail # <<>>
    BY <1>8 DEF Framing
  <2>2. /\ Len(p.tail) = 1
        /\ IsPending(p.tail) <=> ~Textual(p.tail[1])
        /\ Texts(p.tail) = IF IsPending(p.tail) THEN 0 ELSE 1
    BY <1>2, <2>1, FramedTail
  <2>3. q.tail = <<>> /\ q.done = IF IsPending(p.tail) THEN p.done ELSE Append(p.done, p.tail)
    BY <1>3, <1>8
  <2>4. ~Textual(w[1])
    BY <1>8 DEF Closes, Textual
  <2>5. Framing(q.tail, rest)
    <3>1. rest # <<>> => ~Closes(rest[1]) /\ Closes(rest[Len(rest)])
      BY <1>1, <1>8 DEF Framing
    <3>2. \A i \in 1..(Len(rest) - 1) : Closes(rest[i]) <=> ~Closes(rest[i + 1])
      BY <1>1 DEF Framing
    <3> QED
      BY <2>3, <3>1, <3>2 DEF Framing
  <2>6. Seen(q, rest) = Seen(p, w)
    <3>1. CASE IsPending(p.tail)
      BY <3>1, <2>2, <2>3, <2>4, <1>2, <1>4, <1>5, <1>6 DEF Seen
    <3>2. CASE ~IsPending(p.tail)
      <4>1. Len(q.done) = Len(p.done) + 1
        BY <3>2, <2>3, <1>2
      <4> QED
        BY <3>2, <4>1, <2>2, <2>3, <2>4, <1>2, <1>4, <1>5, <1>6 DEF Seen
    <3> QED
      BY <3>1, <3>2
  <2>7. WholeBlocks(p.done) => WholeBlocks(q.done)
    <3>1. CASE IsPending(p.tail)
      BY <3>1, <2>3
    <3>2. CASE ~IsPending(p.tail)
      <4>1. /\ Len(q.done) = Len(p.done) + 1 /\ Len(p.done) \in Nat
            /\ \A i \in 1..Len(p.done) : q.done[i] = p.done[i]
            /\ q.done[Len(p.done) + 1] = p.tail
        BY <3>2, <2>3, <1>2
      <4> QED
        <5> SUFFICES ASSUME WholeBlocks(p.done), NEW i \in 1..Len(q.done)
                     PROVE  Len(q.done[i]) = 1 /\ Textual(q.done[i][1])
          BY DEF WholeBlocks
        <5>1. CASE i \in 1..Len(p.done)
          BY <5>1, <4>1 DEF WholeBlocks
        <5>2. CASE i = Len(p.done) + 1
          BY <5>2, <3>2, <4>1, <2>2
        <5> QED
          BY <5>1, <5>2, <4>1
    <3> QED
      BY <3>1, <3>2
  <2> QED
    BY <2>5, <2>6, <2>7 DEF q, rest
<1> QED
  BY <1>7, <1>8

\* Where the own reply is survives every token too.
LEMMA AbsorbOwn ==
    ASSUME NEW p \in Pipe, NEW w \in Seq(Token), w # <<>>, Framing(p.tail, w),
           NEW requests, OwnIsLast(p, w, requests)
    PROVE  OwnIsLast(Absorb(p, w[1]), Tail(w), requests)
<1> DEFINE q == Absorb(p, w[1])
           rest == Tail(w)
<1>1. /\ rest \in Seq(Token) /\ Len(rest) = Len(w) - 1 /\ Len(w) \in Nat \ {0}
      /\ \A i \in 1..Len(rest) : rest[i] = w[i + 1]
      /\ DOMAIN rest = 1..Len(rest) /\ DOMAIN w = 1..Len(w) /\ w[1] \in Token
  OBVIOUS
<1>2. p.tail \in Seq(Token) /\ p.done \in Seq(Seq(Token))
  BY DEF Pipe
<1>3. /\ q \in Pipe
      /\ ~Closes(w[1]) => q.tail = Append(p.tail, w[1]) /\ q.done = p.done
      /\ Closes(w[1]) => q.tail = <<>> /\ q.done = IF IsPending(p.tail) THEN p.done
                                                  ELSE Append(p.done, p.tail)
  BY <1>1, AbsorbCases
<1> HIDE DEF q, rest
<1>4. \A i \in 1..Len(rest) : Textual(rest[i]) =>
         (rest[i].own <=> requests = <<>> /\ \A j \in (i + 1)..Len(rest) : ~Textual(rest[j]))
  <2> SUFFICES ASSUME NEW i \in 1..Len(rest), Textual(rest[i])
               PROVE  rest[i].own <=> /\ requests = <<>>
                                      /\ \A j \in (i + 1)..Len(rest) : ~Textual(rest[j])
    OBVIOUS
  <2>1. i + 1 \in 1..Len(w) /\ rest[i] = w[i + 1]
    BY <1>1
  <2>2. w[i + 1].own <=> /\ requests = <<>>
                         /\ \A j \in (i + 2)..Len(w) : ~Textual(w[j])
    BY <2>1 DEF OwnIsLast
  <2>3. (\A j \in (i + 2)..Len(w) : ~Textual(w[j]))
           <=> \A j \in (i + 1)..Len(rest) : ~Textual(rest[j])
    <3>1. ASSUME \A j \in (i + 2)..Len(w) : ~Textual(w[j]), NEW j \in (i + 1)..Len(rest)
          PROVE  ~Textual(rest[j])
      <4>1. j + 1 \in (i + 2)..Len(w) /\ rest[j] = w[j + 1]
        BY <1>1
      <4> QED
        BY <3>1, <4>1
    <3>2. ASSUME \A j \in (i + 1)..Len(rest) : ~Textual(rest[j]), NEW j \in (i + 2)..Len(w)
          PROVE  ~Textual(w[j])
      <4>1. j - 1 \in (i + 1)..Len(rest) /\ rest[j - 1] = w[j]
        BY <1>1
      <4> QED
        BY <3>2, <4>1
    <3> QED
      BY <3>1, <3>2
  <2> QED
    BY <2>1, <2>2, <2>3
<1>5. NoText(w) <=> ~Textual(w[1]) /\ NoText(rest)
  <2>1. ASSUME ~Textual(w[1]), NoText(rest), NEW j \in 1..Len(w) PROVE ~Textual(w[j])
    <3>1. CASE j = 1
      BY <3>1, <2>1
    <3>2. CASE j # 1
      <4>1. j - 1 \in 1..Len(rest) /\ rest[j - 1] = w[j]
        BY <3>2, <1>1
      <4> QED
        BY <4>1, <2>1, <1>1 DEF NoText
    <3> QED
      BY <3>1, <3>2
  <2>2. ASSUME NoText(w), NEW j \in 1..Len(rest) PROVE ~Textual(rest[j])
    <3>1. j + 1 \in 1..Len(w) /\ rest[j] = w[j + 1]
      BY <1>1
    <3> QED
      BY <3>1, <2>2, <1>1 DEF NoText
  <2>3. NoText(w) => ~Textual(w[1])
    BY <1>1 DEF NoText
  <2> QED
    BY <2>1, <2>2, <2>3, <1>1 DEF NoText
<1>6. CASE ~Closes(w[1])
  <2>1. p.tail = <<>>
    BY <1>6 DEF Framing
  <2>2. q.tail = <<w[1]>> /\ q.done = p.done
    BY <1>3, <1>6, <2>1
  <2>3. NoText(p.tail) /\ (NoText(q.tail) <=> ~Textual(w[1]))
    BY <2>1, <2>2 DEF NoText
  <2>4. \A i \in 1..Len(q.tail) : Textual(q.tail[i]) =>
           (q.tail[i].own <=> requests = <<>> /\ NoText(rest))
    <3>1. Textual(w[1]) => (w[1].own <=> requests = <<>> /\ NoText(rest))
      <4>1. (\A j \in 2..Len(w) : ~Textual(w[j])) <=> NoText(rest)
        <5>1. ASSUME \A j \in 2..Len(w) : ~Textual(w[j]), NEW j \in 1..Len(rest)
              PROVE  ~Textual(rest[j])
          <6>1. j + 1 \in 2..Len(w) /\ rest[j] = w[j + 1]
            BY <1>1
          <6> QED
            BY <5>1, <6>1
        <5>2. ASSUME NoText(rest), NEW j \in 2..Len(w) PROVE ~Textual(w[j])
          <6>1. j - 1 \in 1..Len(rest) /\ rest[j - 1] = w[j]
            BY <1>1
          <6> QED
            BY <5>2, <6>1, <1>1 DEF NoText
        <5> QED
          BY <5>1, <5>2, <1>1 DEF NoText
      <4>2. 1 \in 1..Len(w) /\ 1 + 1 = 2
        BY <1>1
      <4> QED
        BY <4>1, <4>2 DEF OwnIsLast
    <3>2. Len(q.tail) = 1 /\ q.tail[1] = w[1]
      BY <2>2
    <3> QED
      BY <3>1, <3>2
  <2>5. \A i \in 1..Len(q.done) :
           q.done[i][1].own <=> /\ i = Len(q.done)
                                /\ requests = <<>> /\ NoText(rest) /\ NoText(q.tail)
    BY <2>2, <2>3, <1>5 DEF OwnIsLast
  <2> QED
    BY <1>4, <2>4, <2>5 DEF OwnIsLast, q, rest
<1>7. CASE Closes(w[1])
  <2>1. p.tail # <<>>
    BY <1>7 DEF Framing
  <2>2. /\ Len(p.tail) = 1
        /\ IsPending(p.tail) <=> ~Textual(p.tail[1])
        /\ NoText(p.tail) <=> IsPending(p.tail)
    BY <1>2, <2>1, FramedTail
  <2>3. q.tail = <<>> /\ q.done = IF IsPending(p.tail) THEN p.done ELSE Append(p.done, p.tail)
    BY <1>3, <1>7
  <2>4. NoText(w) <=> NoText(rest)
    BY <1>5, <1>7 DEF Closes, Textual
  <2>5. NoText(q.tail) /\ Len(q.tail) = 0
    BY <2>3 DEF NoText
  <2>6. \A i \in 1..Len(q.done) :
           q.done[i][1].own <=> /\ i = Len(q.done)
                                /\ requests = <<>> /\ NoText(rest) /\ NoText(q.tail)
    <3>1. CASE IsPending(p.tail)
      BY <3>1, <2>2, <2>3, <2>4, <2>5 DEF OwnIsLast
    <3>2. CASE ~IsPending(p.tail)
      <4>1. /\ Len(q.done) = Len(p.done) + 1 /\ Len(p.done) \in Nat
            /\ \A i \in 1..Len(p.done) : q.done[i] = p.done[i]
            /\ q.done[Len(p.done) + 1] = p.tail
        BY <3>2, <2>3, <1>2
      <4>2. p.tail[1].own <=> requests = <<>> /\ NoText(w)
        BY <3>2, <2>2 DEF OwnIsLast
      <4>3. ~NoText(p.tail)
        BY <3>2, <2>2
      <4>4. \A i \in 1..Len(p.done) : ~p.done[i][1].own
        BY <4>3 DEF OwnIsLast
      <4> SUFFICES ASSUME NEW i \in 1..Len(q.done)
                   PROVE  q.done[i][1].own <=> /\ i = Len(q.done)
                                               /\ requests = <<>>
                                               /\ NoText(rest) /\ NoText(q.tail)
        OBVIOUS
      <4>5. CASE i \in 1..Len(p.done)
        BY <4>1, <4>4, <4>5
      <4>6. CASE i = Len(p.done) + 1
        BY <4>1, <4>2, <4>6, <2>4, <2>5
      <4> QED
        BY <4>1, <4>5, <4>6
    <3> QED
      BY <3>1, <3>2
  <2> QED
    BY <1>4, <2>5, <2>6 DEF OwnIsLast, q, rest
<1> QED
  BY <1>6, <1>7

-----------------------------------------------------------------------------
(* The whole harvest *)

\* What is left of a sequence after its first i elements.
Rest(w, i) == SubSeq(w, i + 1, Len(w))

\* It begins with what comes next, and its tail is what is left after that.
LEMMA RestSteps ==
    ASSUME NEW S, NEW w \in Seq(S)
    PROVE  /\ Rest(w, 0) = w
           /\ \A i \in 0..Len(w) : Rest(w, i) \in Seq(S)
           /\ \A i \in 0..(Len(w) - 1) : /\ Rest(w, i) # <<>>
                                         /\ Rest(w, i)[1] = w[i + 1]
                                         /\ Tail(Rest(w, i)) = Rest(w, i + 1)
<1>1. Rest(w, 0) = w
  BY DEF Rest
<1>2. ASSUME NEW i \in 0..Len(w) PROVE Rest(w, i) \in Seq(S)
  BY DEF Rest
<1>3. ASSUME NEW i \in 0..(Len(w) - 1)
      PROVE  /\ Rest(w, i) # <<>>
             /\ Rest(w, i)[1] = w[i + 1]
             /\ Tail(Rest(w, i)) = Rest(w, i + 1)
  <2>1. Len(Rest(w, i)) = Len(w) - i /\ Len(w) \in Nat
    BY DEF Rest
  <2>2. Rest(w, i) # <<>>
    BY <2>1
  <2>3. Rest(w, i)[1] = w[i + 1]
    BY DEF Rest
  <2>4. Tail(Rest(w, i)) = Rest(w, i + 1)
    BY DEF Rest
  <2> QED
    BY <2>2, <2>3, <2>4
<1> QED
  BY <1>1, <1>2, <1>3

\* The pipe q with the tokens `rest' to come is what the pipe p with the tokens w becomes.
Settled(p, w, q, rest) ==
    /\ Framing(q.tail, rest)
    /\ Seen(q, rest) = Seen(p, w)
    /\ WholeBlocks(p.done) => WholeBlocks(q.done)

\* feed() leaves the count alone.
LEMMA FeedType ==
    ASSUME NEW p \in Pipe, NEW tokens \in Seq(Token)
    PROVE  /\ \A i \in 0..Len(tokens) :
                 /\ Harvest(p, tokens)[i] \in Pipe
                 /\ Harvest(p, tokens)[i].owed = p.owed
                 /\ Harvest(p, tokens)[i].dirty = p.dirty
           /\ Feed(p, tokens) = Harvest(p, tokens)[Len(tokens)]
<1> DEFINE h == Harvest(p, tokens)
           Kept(q) == q \in Pipe /\ q.owed = p.owed /\ q.dirty = p.dirty
           S == {i \in Nat : i <= Len(tokens) => Kept(h[i])}
<1>1. Len(tokens) \in Nat /\ \A i \in 1..Len(tokens) : tokens[i] \in Token
  OBVIOUS
<1>2. h[0] = p /\ \A i \in 1..Len(tokens) : h[i] = Absorb(h[i - 1], tokens[i])
  BY <1>1, HarvestSteps
<1> HIDE DEF h
<1>3. 0 \in S
  BY <1>2
<1>4. ASSUME NEW i \in Nat, i \in S PROVE i + 1 \in S
  <2> SUFFICES ASSUME i + 1 <= Len(tokens) PROVE Kept(h[i + 1])
    OBVIOUS
  <2>1. i + 1 \in 1..Len(tokens) /\ (i + 1) - 1 = i /\ i <= Len(tokens)
    BY <1>1
  <2>2. h[i + 1] = Absorb(h[i], tokens[i + 1])
    BY <2>1, <1>2
  <2>3. Kept(h[i])
    BY <1>4, <2>1
  <2>4. tokens[i + 1] \in Token
    BY <1>1, <2>1
  <2>5. Kept(Absorb(h[i], tokens[i + 1]))
    BY <2>3, <2>4, AbsorbCases
  <2> QED
    BY <2>2, <2>5
<1>5. Nat \subseteq S
  <2> HIDE DEF S
  <2> QED
    BY <1>3, <1>4, NatInduct
<1>6. \A i \in 0..Len(tokens) : Kept(h[i])
  BY <1>1, <1>5
<1>7. Kept(h[Len(tokens)])
  BY <1>1, <1>6
<1>8. Feed(p, tokens) = [p EXCEPT !.tail = h[Len(tokens)].tail, !.done = h[Len(tokens)].done]
  BY DEF Feed, h
<1>9. Feed(p, tokens) = h[Len(tokens)]
  <2> DEFINE q == h[Len(tokens)]
             r == [p EXCEPT !.tail = q.tail, !.done = q.done]
  <2>1. q \in Pipe /\ q.owed = p.owed /\ q.dirty = p.dirty
    BY <1>7
  <2> HIDE DEF q
  <2>2. r \in Pipe /\ r.owed = q.owed /\ r.dirty = q.dirty /\ r.tail = q.tail /\ r.done = q.done
    BY <2>1 DEF Pipe
  <2> HIDE DEF r
  <2>3. r = q
    BY <2>1, <2>2 DEF Pipe
  <2> QED
    BY <2>3, <1>8 DEF q, r
<1> QED
  BY <1>6, <1>9 DEF h

\* A harvest keeps what one token keeps.
LEMMA FeedKeeps ==
    ASSUME NEW p \in Pipe, NEW w \in Seq(Token), NEW n \in 1..Len(w), Framing(p.tail, w),
           NEW requests
    PROVE  /\ Settled(p, w, Feed(p, SubSeq(w, 1, n)), Rest(w, n))
           /\ OwnIsLast(p, w, requests)
                => OwnIsLast(Feed(p, SubSeq(w, 1, n)), Rest(w, n), requests)
<1> DEFINE tokens == SubSeq(w, 1, n)
           h == Harvest(p, tokens)
           Good(i) == /\ Settled(p, w, h[i], Rest(w, i))
                      /\ OwnIsLast(p, w, requests) => OwnIsLast(h[i], Rest(w, i), requests)
           S == {i \in Nat : i <= n => Good(i)}
<1>1. /\ tokens \in Seq(Token) /\ Len(tokens) = n /\ \A i \in 1..n : tokens[i] = w[i]
      /\ n \in Nat /\ n <= Len(w) /\ Len(w) \in Nat
  OBVIOUS
<1>2. h[0] = p /\ \A i \in 1..n : h[i] = Absorb(h[i - 1], tokens[i])
  <2> HIDE DEF tokens
  <2> QED
    BY <1>1, HarvestSteps
<1>3. (\A i \in 0..n : h[i] \in Pipe) /\ Feed(p, tokens) = h[n]
  <2> HIDE DEF tokens
  <2> QED
    BY <1>1, FeedType
<1> HIDE DEF tokens, h
<1>4. 0 \in S
  BY <1>2, RestSteps DEF Settled
<1>5. ASSUME NEW i \in Nat, i \in S PROVE i + 1 \in S
  <2> SUFFICES ASSUME i + 1 <= n PROVE Good(i + 1)
    OBVIOUS
  <2>1. i \in 0..n /\ i \in 0..(Len(w) - 1) /\ i \in 0..Len(w) /\ i + 1 \in 1..n /\ (i + 1) - 1 = i
    BY <1>1
  <2>2. h[i + 1] = Absorb(h[i], w[i + 1]) /\ h[i] \in Pipe
    BY <2>1, <1>1, <1>2, <1>3
  <2>3. /\ Rest(w, i) \in Seq(Token) /\ Rest(w, i) # <<>>
        /\ Rest(w, i)[1] = w[i + 1] /\ Tail(Rest(w, i)) = Rest(w, i + 1)
    BY <2>1, RestSteps
  <2>4. Good(i)
    BY <1>5, <2>1
  <2>5. Framing(h[i].tail, Rest(w, i))
    BY <2>4 DEF Settled
  <2>6. /\ Framing(h[i + 1].tail, Rest(w, i + 1))
        /\ Seen(h[i + 1], Rest(w, i + 1)) = Seen(h[i], Rest(w, i))
        /\ WholeBlocks(h[i].done) => WholeBlocks(h[i + 1].done)
    BY <2>2, <2>3, <2>5, AbsorbFramed
  <2>7. OwnIsLast(h[i], Rest(w, i), requests) => OwnIsLast(h[i + 1], Rest(w, i + 1), requests)
    BY <2>2, <2>3, <2>5, AbsorbOwn
  <2> QED
    BY <2>4, <2>6, <2>7 DEF Settled
<1>6. Nat \subseteq S
  <2> HIDE DEF S
  <2> QED
    BY <1>4, <1>5, NatInduct
<1>7. Good(n)
  BY <1>1, <1>6
<1> QED
  BY <1>3, <1>7 DEF tokens

-----------------------------------------------------------------------------
(* What is printed, and what is disowned *)

\* A reply printed after framed text is framed.
LEMMA PrintedFraming ==
    ASSUME NEW tail \in Seq(Token), NEW w \in Seq(Token), Framing(tail, w),
           NEW kind \in Kind \ {"prompt"}, NEW r \in Request
    PROVE  Framing(tail, w \o Framed(kind, r))
<1> DEFINE t == w \o Framed(kind, r)
<1>1. /\ t \in Seq(Token) /\ Len(t) = Len(w) + 2
      /\ \A i \in 1..Len(w) : t[i] = w[i]
      /\ t[Len(w) + 1] = [kind |-> kind, of |-> r.of, own |-> r.own]
      /\ t[Len(w) + 2] = [kind |-> "prompt", of |-> r.of, own |-> r.own]
  <2>1. Printed(t, w, kind, r)
    BY FramedTokens
  <2> HIDE DEF t
  <2> QED
    BY <2>1 DEF Printed
<1> HIDE DEF t
<1>2. ~Closes(t[Len(w) + 1]) /\ Closes(t[Len(w) + 2])
  BY <1>1 DEF Closes
<1>3. Len(w) \in Nat /\ (w = <<>> <=> Len(w) = 0)
  OBVIOUS
<1>4. Closes(t[1]) <=> tail # <<>>
  BY <1>1, <1>2, <1>3 DEF Framing
<1>5. \A i \in 1..(Len(t) - 1) : Closes(t[i]) <=> ~Closes(t[i + 1])
  <2> SUFFICES ASSUME NEW i \in 1..(Len(w) + 1) PROVE Closes(t[i]) <=> ~Closes(t[i + 1])
    BY <1>1, <1>3
  <2>1. CASE i \in 1..(Len(w) - 1)
    <3>1. t[i] = w[i] /\ t[i + 1] = w[i + 1]
      BY <2>1, <1>1, <1>3
    <3> QED
      BY <2>1, <3>1 DEF Framing
  <2>2. CASE i = Len(w)
    <3>1. w # <<>> /\ i \in 1..Len(w) /\ t[i] = w[Len(w)]
      BY <2>2, <1>1, <1>3
    <3> QED
      BY <2>2, <3>1, <1>2 DEF Framing
  <2>3. CASE i = Len(w) + 1
    BY <2>3, <1>2, <1>3
  <2> QED
    BY <2>1, <2>2, <2>3, <1>3
<1>6. t # <<>> /\ Closes(t[Len(t)])
  BY <1>1, <1>2, <1>3
<1> QED
  BY <1>4, <1>5, <1>6 DEF Framing, t

\* The reply to the oldest request takes its place, also as the own one.
LEMMA AnswerOwn ==
    ASSUME NEW p \in Pipe, NEW w \in Seq(Token), NEW requests \in Seq(Request), requests # <<>>,
           NEW kind \in {"answer", "nodata"}, OwnIsLast(p, w, requests)
    PROVE  OwnIsLast(p, w \o Framed(kind, requests[1]), Tail(requests))
<1> DEFINE t == w \o Framed(kind, requests[1])
           rest == Tail(requests)
           r == requests[1]
           n == Len(w)
<1>1. /\ rest \in Seq(Request) /\ Len(rest) = Len(requests) - 1
      /\ Len(requests) \in Nat \ {0} /\ r \in Request
      /\ \A i \in 1..Len(rest) : rest[i] = requests[i + 1]
  OBVIOUS
<1>2. rest = <<>> <=> Len(requests) = 1
  <2> HIDE DEF rest
  <2>1. rest = <<>> <=> Len(rest) = 0
    BY <1>1
  <2> QED
    BY <1>1, <2>1
<1>3. kind \in Kind
  BY DEF Kind
<1> HIDE DEF r
<1>4. /\ t \in Seq(Token) /\ Len(t) = n + 2
      /\ \A i \in 1..n : t[i] = w[i]
      /\ t[n + 1] = [kind |-> kind, of |-> r.of, own |-> r.own]
      /\ t[n + 2] = [kind |-> "prompt", of |-> r.of, own |-> r.own]
  <2>1. Printed(t, w, kind, r)
    BY <1>1, <1>3, FramedTokens DEF r
  <2> HIDE DEF t
  <2> QED
    BY <2>1 DEF Printed, n
<1>5. n \in Nat
  OBVIOUS
<1> HIDE DEF t, rest, n
<1>6. Textual(t[n + 1]) /\ ~Textual(t[n + 2]) /\ (t[n + 1].own <=> r.own)
  BY <1>4 DEF Textual
<1>7. r.own <=> rest = <<>>
  <2>1. 1 \in 1..Len(requests)
    BY <1>1
  <2>2. r.own <=> 1 = Len(requests)
    BY <2>1 DEF OwnIsLast, r
  <2> QED
    BY <2>2, <1>2
<1>8. \A i \in 1..Len(rest) : rest[i].own <=> i = Len(rest)
  BY <1>1 DEF OwnIsLast
<1>9. \A i \in 1..Len(t) : Textual(t[i]) =>
         (t[i].own <=> rest = <<>> /\ \A j \in (i + 1)..Len(t) : ~Textual(t[j]))
  <2> SUFFICES ASSUME NEW i \in 1..(n + 2), Textual(t[i])
               PROVE  t[i].own <=> rest = <<>> /\ \A j \in (i + 1)..(n + 2) : ~Textual(t[j])
    BY <1>4
  <2>1. CASE i \in 1..n
    <3>1. ~w[i].own
      BY <2>1, <1>4 DEF OwnIsLast, n
    <3>2. n + 1 \in (i + 1)..(n + 2)
      BY <2>1, <1>5
    <3> QED
      BY <2>1, <3>1, <3>2, <1>4, <1>6
  <2>2. CASE i = n + 1
    <3>1. \A j \in (i + 1)..(n + 2) : j = n + 2
      BY <2>2, <1>5
    <3> QED
      BY <2>2, <3>1, <1>6, <1>7
  <2>3. i # n + 2
    BY <1>6
  <2> QED
    BY <2>1, <2>2, <2>3, <1>5
<1>10. ~NoText(t)
  BY <1>4, <1>5, <1>6 DEF NoText
<1>11. \A i \in 1..Len(p.tail) : Textual(p.tail[i]) => ~p.tail[i].own
  BY DEF OwnIsLast
<1>12. \A i \in 1..Len(p.done) : ~p.done[i][1].own
  BY DEF OwnIsLast
<1> QED
  BY <1>8, <1>9, <1>10, <1>11, <1>12 DEF OwnIsLast, t, rest

\* The announcement of a reply is no reply.
LEMMA PendingOwn ==
    ASSUME NEW p, NEW requests, NEW r \in Request, OwnIsLast(p, <<>>, requests)
    PROVE  OwnIsLast(p, Framed("pending", r), requests)
<1> DEFINE t == Framed("pending", r)
<1>1. Len(t) = 2 /\ DOMAIN t = 1..2 /\ t[1].kind = "pending" /\ t[2].kind = "prompt"
  BY DEF Framed
<1> HIDE DEF t
<1>2. \A i \in 1..Len(t) : ~Textual(t[i])
  BY <1>1 DEF Textual
<1>3. NoText(t) /\ NoText(<<>>)
  BY <1>1, <1>2 DEF NoText
<1> QED
  BY <1>2, <1>3 DEF OwnIsLast, t

\* Disowning changes no framing.
LEMMA DisownFraming ==
    ASSUME NEW tail \in Seq(Token), NEW w \in Seq(Token), Framing(tail, w)
    PROVE  Framing(Disown(tail), Disown(w))
<1> DEFINE s == Disown(tail)
           t == Disown(w)
<1>1. /\ s \in Seq(Token) /\ Len(s) = Len(tail)
      /\ \A i \in 1..Len(tail) : s[i] = [tail[i] EXCEPT !.own = FALSE]
      /\ t \in Seq(Token) /\ Len(t) = Len(w)
      /\ \A i \in 1..Len(w) : t[i] = [w[i] EXCEPT !.own = FALSE]
  BY Disowned
<1> HIDE DEF s, t
<1>2. \A e \in Token : [e EXCEPT !.own = FALSE].kind = e.kind
  BY DEF Token
<1>3. \A i \in 1..Len(tail) : Closes(s[i]) <=> Closes(tail[i])
  <2>1. \A i \in 1..Len(tail) : tail[i] \in Token
    OBVIOUS
  <2> QED
    BY <1>1, <1>2, <2>1 DEF Closes
<1>4. \A i \in 1..Len(w) : Closes(t[i]) <=> Closes(w[i])
  <2>1. \A i \in 1..Len(w) : w[i] \in Token
    OBVIOUS
  <2> QED
    BY <1>1, <1>2, <2>1 DEF Closes
<1>5. (s = <<>> <=> tail = <<>>) /\ (t = <<>> <=> w = <<>>)
  BY <1>1
<1>6. Len(w) \in Nat /\ (w # <<>> => Len(w) >= 1)
  OBVIOUS
<1>7. \A i \in 1..(Len(t) - 1) : Closes(t[i]) <=> ~Closes(t[i + 1])
  <2> SUFFICES ASSUME NEW i \in 1..(Len(w) - 1) PROVE Closes(t[i]) <=> ~Closes(t[i + 1])
    BY <1>1
  <2>1. i \in 1..Len(w) /\ i + 1 \in 1..Len(w)
    BY <1>6
  <2> QED
    BY <2>1, <1>4 DEF Framing
<1>8. t # <<>> => (Closes(t[1]) <=> s # <<>>) /\ Closes(t[Len(t)])
  <2> SUFFICES ASSUME w # <<>> PROVE (Closes(t[1]) <=> s # <<>>) /\ Closes(t[Len(t)])
    BY <1>5
  <2>1. 1 \in 1..Len(w) /\ Len(w) \in 1..Len(w)
    BY <1>6
  <2> QED
    BY <2>1, <1>1, <1>4, <1>5 DEF Framing
<1>9. Len(s) <= 1 /\ \A i \in 1..Len(s) : ~Closes(s[i])
  BY <1>1, <1>3 DEF Framing
<1> QED
  BY <1>5, <1>7, <1>8, <1>9 DEF Framing, s, t

-----------------------------------------------------------------------------
(* The exchange *)

\* Every variable but the phase keeps its range.
TypeInv ==
    /\ asked \in 1..Cycle
    /\ verdict \in {"ok", "none", "resync"}
    /\ attempt \in 0..Retries
    /\ pipe \in Pipe
    /\ reinit \in BOOLEAN
    /\ adapter \in Seq(Request)
    /\ wire \in Seq(Token)
    /\ cancelled \in 0..MaxCancels
    /\ doubt \in BOOLEAN

\* What holds of the text while nothing has cast doubt on it.
TextInv ==
    /\ phase \in {"idle", "drain"} => pipe.done = <<>>
    /\ ~doubt => WholeBlocks(pipe.done)
    /\ ~doubt /\ phase \in {"idle", "collect", "probe"} =>
          /\ Framing(pipe.tail, wire)
          /\ pipe.owed = Len(adapter) + Seen(pipe, wire)
    /\ ~doubt /\ phase \in {"collect", "probe"} => OwnIsLast(pipe, wire, adapter)

ExchangeInv == LedgerInv /\ TypeInv /\ TextInv

\* Nothing read and nothing due: framed, and no own reply to place.
LEMMA NothingRead ==
    /\ <<>> \in Seq(Token) /\ <<>> \in Seq(Seq(Token)) /\ <<>> \in Seq(Request)
    /\ Framing(<<>>, <<>>)
    /\ WholeBlocks(<<>>)
    /\ Texts(<<>>) = 0
BY TextsOne DEF Framing, WholeBlocks

\* The start-up banner.
LEMMA Banners ==
    ASSUME NEW w \in Seq(Token)
    PROVE  /\ w \o Banner \in Seq(Token)
           /\ Banner \in Seq(Token)
           /\ Framing(<<>>, Banner) /\ Texts(Banner) = 1
<1> DEFINE r == [of |-> 0, own |-> FALSE]
<1>1. r \in Request /\ "banner" \in Kind \ {"prompt"}
  BY CycleNat DEF Request, Kind, Position
<1> HIDE DEF r
<1>2. Banner = Framed("banner", r)
  BY DEF Banner, r
<1>3. w \o Banner \in Seq(Token)
  <2>1. Printed(w \o Banner, w, "banner", r)
    BY <1>1, <1>2, FramedTokens
  <2> QED
    BY <2>1 DEF Printed
<1>4. <<>> \o Framed("banner", r) = Banner
  BY <1>2 DEF Framed
<1>5. Banner \in Seq(Token) /\ Texts(Banner) = Texts(<<>>) + 1
  <2>1. Printed(<<>> \o Framed("banner", r), <<>>, "banner", r)
    BY <1>1, NothingRead, FramedTokens
  <2> QED
    BY <2>1, <1>4 DEF Printed
<1>6. Framing(<<>>, Banner)
  BY <1>1, <1>2, <1>4, NothingRead, PrintedFraming
<1> QED
  BY <1>3, <1>5, <1>6, NothingRead

\* A fresh connection has nothing read, on its way or due.
LEMMA InitExchange == Init => TypeInv /\ TextInv
<1> SUFFICES ASSUME Init PROVE TypeInv /\ TextInv
  OBVIOUS
<1>1. /\ pipe.owed = 0 /\ pipe.tail = <<>> /\ pipe.done = <<>> /\ pipe \in Pipe
      /\ wire = <<>> /\ adapter = <<>> /\ phase = "idle"
  BY NothingRead DEF Init, FreshPipe, Pipe
<1>2. Seen(pipe, wire) = 0 /\ Len(adapter) = 0
  BY <1>1, NothingRead DEF Seen
<1>3. TypeInv
  <2>1. Cycle \in 1..Cycle /\ 0 \in 0..Retries /\ 0 \in 0..MaxCancels
    BY CycleNat
  <2> QED
    BY <1>1, <2>1, NothingRead DEF Init, TypeInv
<1> QED
  BY <1>1, <1>2, <1>3, NothingRead DEF TextInv

\* begin() counts one prompt more and drops what was completed.
LEMMA BeginLedger ==
    ASSUME NEW p \in Pipe
    PROVE  /\ Begin(p) \in Pipe /\ Begin(p).owed = p.owed + 1 /\ Begin(p).dirty = p.dirty
           /\ Begin(p).tail = p.tail /\ Begin(p).done = <<>>
<1>1. p.owed \in Nat /\ p.owed + 1 \in Nat /\ <<>> \in Seq(Seq(Token))
  BY DEF Pipe
<1> DEFINE more == p.owed + 1
           none == <<>>
<1>2. Begin(p) = [p EXCEPT !.owed = more, !.done = none]
  BY DEF Begin
<1>3. more \in Nat /\ none \in Seq(Seq(Token))
  BY <1>1
<1> HIDE DEF more, none
<1>4. /\ Begin(p) \in Pipe /\ Begin(p).owed = more /\ Begin(p).dirty = p.dirty
      /\ Begin(p).tail = p.tail /\ Begin(p).done = none
  BY <1>2, <1>3 DEF Pipe
<1> QED
  BY <1>4 DEF more, none

\* begin() and what is sent with it: what was in flight is disowned, and one more reply
\* is counted and, unless it is lost, due.
LEMMA SendStep == ExchangeInv /\ Send => TypeInv' /\ TextInv'
<1> SUFFICES ASSUME ExchangeInv, Send PROVE TypeInv' /\ TextInv'
  OBVIOUS
<1>1. TypeInv /\ TextInv /\ phase = "idle"
  BY DEF ExchangeInv, Send
<1>2. PICK p \in 1..Cycle : Transmit(p, pipe)
  <2>1. asked \in 1..Cycle /\ (asked % Cycle) + 1 \in 1..Cycle
    <3>1. asked \in 1..Cycle
      BY <1>1 DEF TypeInv
    <3>2. asked % Cycle \in 0..(Cycle - 1)
      BY <3>1, CycleNat
    <3> QED
      BY <3>1, <3>2, CycleNat
  <2> QED
    BY <2>1 DEF Send
<1>3. /\ pipe \in Pipe /\ pipe.tail \in Seq(Token) /\ pipe.owed \in Nat
      /\ wire \in Seq(Token) /\ adapter \in Seq(Request)
  BY <1>1 DEF TypeInv, Pipe
<1> DEFINE tail == Disown(pipe.tail)
           w == Disown(wire)
           requests == Disown(adapter)
           r == [of |-> p, own |-> TRUE]
<1>4. /\ tail \in Seq(Token) /\ Len(tail) = Len(pipe.tail) /\ Texts(tail) = Texts(pipe.tail)
      /\ w \in Seq(Token) /\ Len(w) = Len(wire) /\ Texts(w) = Texts(wire)
      /\ requests \in Seq(Request) /\ Len(requests) = Len(adapter)
  BY <1>3, Disowned, DisownedRequests
<1>5. /\ \A i \in 1..Len(tail) : ~tail[i].own
      /\ \A i \in 1..Len(w) : ~w[i].own
      /\ \A i \in 1..Len(requests) : ~requests[i].own
  <2>1. \A e \in Token : ~[e EXCEPT !.own = FALSE].own
    BY DEF Token
  <2>2. \A s \in Seq(Token) : \A i \in 1..Len(s) : ~Disown(s)[i].own
    <3> SUFFICES ASSUME NEW s \in Seq(Token), NEW i \in 1..Len(s) PROVE ~Disown(s)[i].own
      OBVIOUS
    <3>1. s[i] \in Token /\ Disown(s)[i] = [s[i] EXCEPT !.own = FALSE]
      BY Disowned
    <3> QED
      BY <3>1, <2>1
  <2>3. \A i \in 1..Len(adapter) : ~requests[i].own
    BY <1>3, DisownedRequests
  <2> QED
    BY <2>2, <2>3, <1>3, <1>4
<1>6. r \in Request
  BY CycleNat DEF Request, Position
<1>7. /\ pipe' \in Pipe /\ pipe'.owed = pipe.owed + 1
      /\ pipe'.tail = tail /\ pipe'.done = <<>>
  <2> DEFINE begun == Begin(pipe)
  <2>1. begun \in Pipe /\ begun.owed = pipe.owed + 1 /\ begun.tail = pipe.tail /\ begun.done = <<>>
    BY <1>3, BeginLedger
  <2>2. pipe' = [begun EXCEPT !.tail = Disown(begun.tail)]
    BY <1>2 DEF Transmit
  <2> HIDE DEF begun
  <2> QED
    BY <2>1, <2>2, <1>4 DEF Pipe
<1> HIDE DEF tail, w, requests, r
<1>8. /\ wire' = w /\ asked' = p /\ phase' = "collect"
      /\ UNCHANGED <<verdict, reinit, cancelled>> /\ attempt' \in 0..Retries
      /\ \/ /\ Outstanding < Backlog
            /\ adapter' = Append(requests, r) /\ doubt' = doubt
         \/ adapter' = requests /\ doubt' = TRUE
  <2>1. attempt' \in 0..Retries
    BY <1>1, CycleNat DEF Send, TypeInv
  <2>2. wire' = w /\ asked' = p
    BY <1>2 DEF Transmit, w
  <2>3. phase' = "collect" /\ UNCHANGED <<verdict, reinit, cancelled>>
    BY DEF Send
  <2>4. \/ /\ Outstanding < Backlog
           /\ adapter' = Append(requests, r) /\ doubt' = doubt
        \/ adapter' = requests /\ doubt' = TRUE
    BY <1>2 DEF Transmit, requests, r
  <2> QED
    BY <2>1, <2>2, <2>3, <2>4
<1>9. adapter' \in Seq(Request) /\ doubt' \in BOOLEAN
  <2>1. doubt' \in BOOLEAN
    BY <1>8, <1>1 DEF TypeInv
  <2>2. Append(requests, r) \in Seq(Request)
    BY <1>4, <1>6
  <2> QED
    BY <2>1, <2>2, <1>4, <1>8
<1>10. TypeInv'
  BY <1>1, <1>4, <1>7, <1>8, <1>9 DEF TypeInv
<1>11. WholeBlocks(pipe'.done)
  BY <1>7, NothingRead
<1>12. ASSUME ~doubt'
       PROVE  /\ Framing(pipe'.tail, wire')
              /\ pipe'.owed = Len(adapter') + Seen(pipe', wire')
              /\ OwnIsLast(pipe', wire', adapter')
  <2>1. ~doubt /\ adapter' = Append(requests, r)
    BY <1>8, <1>12
  <2>2. pipe.done = <<>> /\ Framing(pipe.tail, wire) /\ pipe.owed = Len(adapter) + Seen(pipe, wire)
    BY <1>1, <2>1 DEF TextInv
  <2>3. Framing(tail, w)
    BY <2>2, <1>3, DisownFraming DEF tail, w
  <2>4. Len(adapter') = Len(adapter) + 1 /\ Len(adapter) \in Nat
    BY <2>1, <1>3, <1>4, <1>6
  <2>5. Seen(pipe', wire') = Seen(pipe, wire) /\ Seen(pipe, wire) \in Nat
    <3>1. Texts(pipe.tail) \in Nat /\ Texts(wire) \in Nat
      BY <1>3, TextsFinite
    <3> QED
      BY <3>1, <2>2, <1>4, <1>7, <1>8 DEF Seen
  <2>6. pipe'.owed = Len(adapter') + Seen(pipe', wire')
    BY <2>2, <2>4, <2>5, <1>7
  <2>7. \A i \in 1..Len(adapter') : adapter'[i].own <=> i = Len(adapter')
    <3> SUFFICES ASSUME NEW i \in 1..(Len(adapter) + 1)
                 PROVE  adapter'[i].own <=> i = Len(adapter) + 1
      BY <2>4
    <3>1. CASE i \in 1..Len(adapter)
      BY <3>1, <2>1, <1>4, <1>5, <1>6
    <3>2. CASE i = Len(adapter) + 1
      <4>1. adapter'[i] = r
        BY <3>2, <2>1, <1>4, <1>6
      <4> QED
        BY <3>2, <4>1 DEF r
    <3> QED
      BY <3>1, <3>2, <2>4
  <2>8. adapter' # <<>>
    BY <2>4
  <2>9. OwnIsLast(pipe', wire', adapter')
    BY <2>7, <2>8, <1>5, <1>7, <1>8 DEF OwnIsLast
  <2> QED
    BY <2>3, <2>6, <2>9, <1>7, <1>8
<1> QED
  BY <1>8, <1>10, <1>11, <1>12 DEF TextInv

\* A harvest, of tokens that arrive together.
LEMMA ReceiveStep == ExchangeInv /\ Receive => TypeInv' /\ TextInv'
<1> SUFFICES ASSUME ExchangeInv, Receive PROVE TypeInv' /\ TextInv'
  OBVIOUS
<1>1. TypeInv /\ TextInv /\ phase \in {"collect", "probe"}
  BY DEF ExchangeInv, Receive
<1>2. PICK n \in 1..Len(wire) : /\ pipe' = Feed(pipe, SubSeq(wire, 1, n))
                                /\ wire' = Rest(wire, n)
  BY DEF Receive, Rest
<1>3. UNCHANGED <<phase, asked, verdict, attempt, reinit, adapter, cancelled, doubt>>
  BY DEF Receive
<1>4. pipe \in Pipe /\ wire \in Seq(Token) /\ SubSeq(wire, 1, n) \in Seq(Token)
  BY <1>1 DEF TypeInv
<1>5. pipe' \in Pipe /\ pipe'.owed = pipe.owed
  <2> DEFINE tokens == SubSeq(wire, 1, n)
  <2>1. tokens \in Seq(Token) /\ Len(tokens) \in 0..Len(tokens)
    BY <1>4
  <2> HIDE DEF tokens
  <2>2. /\ Harvest(pipe, tokens)[Len(tokens)] \in Pipe
        /\ Harvest(pipe, tokens)[Len(tokens)].owed = pipe.owed
    BY <2>1, <1>4, FeedType
  <2>3. Feed(pipe, tokens) = Harvest(pipe, tokens)[Len(tokens)]
    BY <2>1, <1>4, FeedType
  <2> QED
    BY <2>2, <2>3, <1>2 DEF tokens
<1>6. wire' \in Seq(Token)
  <2>1. n \in 0..Len(wire)
    OBVIOUS
  <2> QED
    BY <2>1, <1>2, <1>4, RestSteps
<1>7. TypeInv'
  BY <1>1, <1>3, <1>5, <1>6 DEF TypeInv
<1>8. CASE doubt
  BY <1>7, <1>8, <1>1, <1>3 DEF TextInv
<1>9. CASE ~doubt
  <2>1. /\ Framing(pipe.tail, wire) /\ pipe.owed = Len(adapter) + Seen(pipe, wire)
        /\ OwnIsLast(pipe, wire, adapter) /\ WholeBlocks(pipe.done)
    BY <1>9, <1>1 DEF TextInv
  <2>2. Settled(pipe, wire, pipe', wire') /\ OwnIsLast(pipe', wire', adapter)
    BY <2>1, <1>2, <1>4, FeedKeeps
  <2> QED
    BY <2>1, <2>2, <1>1, <1>3, <1>5, <1>7 DEF TextInv, Settled
<1> QED
  BY <1>7, <1>8, <1>9

\* finish() forgets the blocks.
LEMMA FinishPipe ==
    ASSUME NEW p \in Pipe
    PROVE  /\ Finish(p) \in Pipe /\ Finish(p).done = <<>> /\ Finish(p).tail = p.tail
           /\ p.done = <<>> => Finish(p).owed = p.owed
           /\ p.done # <<>> => Finish(p).owed = 0
<1> DEFINE dirty == p.done = <<>>
           owed == IF p.done # <<>> THEN 0 ELSE p.owed
           none == <<>>
<1>1. dirty \in BOOLEAN /\ owed \in Nat /\ none \in Seq(Seq(Token))
  BY DEF Pipe
<1>2. Finish(p) = [p EXCEPT !.dirty = dirty, !.owed = owed, !.done = none]
  BY DEF Finish
<1> HIDE DEF dirty, owed, none
<1>3. /\ Finish(p) \in Pipe /\ Finish(p).owed = owed
      /\ Finish(p).done = none /\ Finish(p).tail = p.tail
  BY <1>1, <1>2 DEF Pipe
<1> QED
  BY <1>3 DEF none, owed

\* When a collection ends unsatisfied with a block in hand, the debt that is written off
\* casts doubt; when it ends satisfied nothing is outstanding.
LEMMA FinishStep ==
    ASSUME ExchangeInv, phase \in {"collect", "probe"}, pipe' = Finish(pipe),
           UNCHANGED <<adapter, wire>>, ~doubt,
           pipe.done = <<>> \/ Satisfied(pipe)
    PROVE  Framing(pipe'.tail, wire') /\ pipe'.owed = Len(adapter') + Seen(pipe', wire')
<1>1. /\ pipe \in Pipe /\ Framing(pipe.tail, wire)
      /\ pipe.owed = Len(adapter) + Seen(pipe, wire)
      /\ wire \in Seq(Token) /\ adapter \in Seq(Request)
  BY DEF ExchangeInv, TypeInv, TextInv
<1>2. pipe.tail \in Seq(Token) /\ pipe.done \in Seq(Seq(Token)) /\ pipe.owed \in Nat
  BY <1>1 DEF Pipe
<1>3. /\ Texts(pipe.tail) \in Nat /\ Texts(wire) \in Nat
      /\ Len(adapter) \in Nat /\ Len(pipe.done) \in Nat
  <2>1. Texts(pipe.tail) \in Nat /\ Texts(wire) \in Nat
    BY <1>1, <1>2, TextsFinite
  <2> QED
    BY <2>1, <1>1, <1>2
<1>4. /\ pipe'.done = <<>> /\ pipe'.tail = pipe.tail
      /\ pipe.done = <<>> => pipe'.owed = pipe.owed
      /\ pipe.done # <<>> => pipe'.owed = 0
  BY <1>1, FinishPipe
<1>5. Seen(pipe', wire') = Texts(pipe.tail) + Texts(wire)
  BY <1>3, <1>4 DEF Seen
<1>6. CASE pipe.done = <<>>
  BY <1>6, <1>1, <1>3, <1>4, <1>5 DEF Seen
<1>7. CASE pipe.done # <<>>
  <2>1. Len(pipe.done) >= pipe.owed
    BY <1>7 DEF Satisfied
  <2>2. Len(adapter) = 0 /\ Texts(pipe.tail) = 0 /\ Texts(wire) = 0
    BY <2>1, <1>1, <1>2, <1>3 DEF Seen
  <2> QED
    BY <1>1, <1>4, <1>5, <1>7, <2>2
<1> QED
  BY <1>6, <1>7

\* The collection's end settles the ledger, or casts doubt on it.
LEMMA ConcludeStep == ExchangeInv /\ Conclude => TypeInv' /\ TextInv'
<1> SUFFICES ASSUME ExchangeInv, Conclude PROVE TypeInv' /\ TextInv'
  OBVIOUS
<1>1. TypeInv /\ phase = "collect" /\ phase' \in {"idle", "drain"}
  BY DEF ExchangeInv, Conclude
<1>2. /\ pipe' = Finish(pipe) /\ UNCHANGED <<asked, attempt, adapter, wire>>
      /\ doubt' = (doubt \/ (pipe.done # <<>> /\ ~Satisfied(pipe)))
      /\ cancelled' = IF pipe.done # <<>> THEN 0 ELSE cancelled
      /\ verdict' = Verdict(Block(pipe), asked)
  BY DEF Conclude
<1>3. pipe' \in Pipe /\ pipe'.done = <<>>
  BY <1>1, <1>2, FinishPipe DEF TypeInv
<1>4. verdict' \in {"ok", "none", "resync"}
  BY <1>2 DEF Verdict
<1>5. reinit' \in BOOLEAN
  BY <1>1 DEF Conclude, TypeInv
<1>6. cancelled' \in 0..MaxCancels
  BY <1>1, <1>2, CycleNat DEF TypeInv
<1>7. doubt' \in BOOLEAN
  BY <1>1, <1>2 DEF TypeInv, Satisfied
<1>8. TypeInv'
  BY <1>1, <1>2, <1>3, <1>4, <1>5, <1>6, <1>7 DEF TypeInv
<1>9. ASSUME ~doubt'
      PROVE  Framing(pipe'.tail, wire') /\ pipe'.owed = Len(adapter') + Seen(pipe', wire')
  BY <1>1, <1>2, <1>9, FinishStep
<1> QED
  BY <1>1, <1>3, <1>8, <1>9, NothingRead DEF TextInv

\* So does the probe's, which owes one prompt.
LEMMA ProbeEndsStep == ExchangeInv /\ ProbeEnds => TypeInv' /\ TextInv'
<1> SUFFICES ASSUME ExchangeInv, ProbeEnds PROVE TypeInv' /\ TextInv'
  OBVIOUS
<1>1. /\ TypeInv /\ phase = "probe" /\ pipe' = Finish(pipe)
      /\ UNCHANGED <<asked, verdict, attempt, reinit, adapter, wire, cancelled, doubt>>
      /\ phase' \in {"down", "idle"}
  BY DEF ExchangeInv, ProbeEnds
<1>2. pipe' \in Pipe /\ pipe'.done = <<>>
  BY <1>1, FinishPipe DEF TypeInv
<1>3. TypeInv'
  BY <1>1, <1>2 DEF TypeInv
<1>4. pipe.done = <<>> \/ Satisfied(pipe)
  <2>1. pipe.owed = 1 /\ pipe.done \in Seq(Seq(Token))
    BY <1>1 DEF ExchangeInv, LedgerInv, PipeShape, TypeInv, Pipe
  <2>2. pipe.done # <<>> => Len(pipe.done) >= 1
    BY <2>1
  <2> QED
    BY <2>1, <2>2 DEF Satisfied
<1>5. ASSUME ~doubt'
      PROVE  Framing(pipe'.tail, wire') /\ pipe'.owed = Len(adapter') + Seen(pipe', wire')
  BY <1>1, <1>4, <1>5, FinishStep
<1> QED
  BY <1>1, <1>2, <1>3, <1>5, NothingRead DEF TextInv

\* The quiet window and the probe: nothing is in flight but the probe's own reply.
LEMMA ProbeStep == ExchangeInv /\ Probe => TypeInv' /\ TextInv'
<1> SUFFICES ASSUME ExchangeInv, Probe PROVE TypeInv' /\ TextInv'
  OBVIOUS
<1> DEFINE cleared == ClearBacklog(pipe)
           r == [of |-> 0, own |-> TRUE]
<1>1. /\ TypeInv /\ phase' = "probe" /\ pipe' = Begin(cleared)
      /\ adapter' = <<r>> /\ cancelled' = 0 /\ doubt' = FALSE
      /\ wire = <<>> /\ UNCHANGED <<asked, verdict, attempt, reinit, wire>>
  BY DEF ExchangeInv, Probe
<1>2. r \in Request /\ r.own
  BY CycleNat DEF Request, Position
<1>3. cleared \in Pipe /\ cleared.owed = 0 /\ cleared.tail = <<>>
  BY <1>1, NothingRead DEF ClearBacklog, TypeInv, Pipe
<1> HIDE DEF cleared, r
<1>4. pipe' \in Pipe /\ pipe'.owed = 1 /\ pipe'.tail = <<>> /\ pipe'.done = <<>>
  BY <1>1, <1>3, BeginLedger
<1>5. adapter' \in Seq(Request) /\ Len(adapter') = 1 /\ adapter'[1] = r
  BY <1>1, <1>2
<1>6. TypeInv'
  <2>1. cancelled' \in 0..MaxCancels
    BY <1>1, CycleNat
  <2> QED
    BY <1>1, <1>4, <1>5, <2>1 DEF TypeInv
<1>7. WholeBlocks(pipe'.done) /\ Framing(pipe'.tail, wire')
  BY <1>1, <1>4, NothingRead
<1>8. pipe'.owed = Len(adapter') + Seen(pipe', wire')
  BY <1>1, <1>4, <1>5, NothingRead DEF Seen
<1>9. OwnIsLast(pipe', wire', adapter')
  BY <1>1, <1>2, <1>4, <1>5 DEF OwnIsLast
<1> QED
  BY <1>1, <1>4, <1>6, <1>7, <1>8, <1>9 DEF TextInv

\* A cancelled collection leaves its debt; half a reply that it throws away casts doubt.
LEMMA CancelStep == ExchangeInv /\ Cancel => TypeInv' /\ TextInv'
<1> SUFFICES ASSUME ExchangeInv, Cancel PROVE TypeInv' /\ TextInv'
  OBVIOUS
<1>1. /\ TypeInv /\ TextInv /\ phase' = "idle" /\ pipe \in Pipe
      /\ UNCHANGED <<asked, verdict, attempt, reinit, adapter, wire>>
  BY DEF ExchangeInv, Cancel, TypeInv
<1>2. CASE phase \in {"collect", "probe"}
  <2>1. /\ cancelled < MaxCancels /\ cancelled' = cancelled + 1
        /\ pipe' = [pipe EXCEPT !.tail = <<>>, !.done = <<>>]
        /\ doubt' = (doubt \/ pipe.tail # <<>> \/ pipe.done # <<>>)
    BY <1>2 DEF Cancel
  <2>2. /\ pipe' \in Pipe /\ pipe'.owed = pipe.owed
        /\ pipe'.tail = <<>> /\ pipe'.done = <<>>
    BY <1>1, <2>1, NothingRead DEF Pipe
  <2>3. cancelled' \in 0..MaxCancels
    BY <1>1, <2>1, CycleNat DEF TypeInv
  <2>4. TypeInv'
    BY <1>1, <2>1, <2>2, <2>3 DEF TypeInv
  <2>5. ASSUME ~doubt'
        PROVE  Framing(pipe'.tail, wire') /\ pipe'.owed = Len(adapter') + Seen(pipe', wire')
    BY <1>1, <1>2, <2>1, <2>2, <2>5 DEF TextInv, Seen
  <2> QED
    BY <1>1, <2>2, <2>4, <2>5, NothingRead DEF TextInv
<1>3. CASE phase = "drain"
  <2>1. doubt' = TRUE /\ UNCHANGED <<cancelled, pipe>>
    BY <1>3 DEF Cancel
  <2>2. TypeInv'
    BY <1>1, <2>1 DEF TypeInv
  <2>3. pipe.done = <<>>
    BY <1>1, <1>3 DEF TextInv
  <2> QED
    BY <1>1, <2>1, <2>2, <2>3 DEF TextInv
<1> QED
  BY <1>2, <1>3 DEF Cancel

\* A command cancelled in its send is due and not counted, which casts doubt.
LEMMA CancelSendStep == ExchangeInv /\ CancelSend => TypeInv' /\ TextInv'
<1> SUFFICES ASSUME ExchangeInv, CancelSend PROVE TypeInv' /\ TextInv'
  OBVIOUS
<1>1. /\ TypeInv /\ TextInv /\ phase = "idle" /\ phase' = "idle" /\ doubt' = TRUE
      /\ verdict' = "ok" /\ attempt' = 0 /\ UNCHANGED <<reinit, cancelled>>
      /\ asked' = (asked % Cycle) + 1 /\ wire' = Disown(wire)
      /\ adapter' = Append(Disown(adapter), [of |-> asked', own |-> FALSE])
      /\ pipe' = [pipe EXCEPT !.tail = Disown(@)]
  BY DEF ExchangeInv, CancelSend
<1>2. /\ pipe \in Pipe /\ pipe.tail \in Seq(Token) /\ wire \in Seq(Token)
      /\ adapter \in Seq(Request) /\ pipe.done = <<>>
  BY <1>1 DEF TypeInv, TextInv, Pipe
<1>3. asked' \in 1..Cycle
  <2>1. asked % Cycle \in 0..(Cycle - 1)
    BY <1>1, CycleNat DEF TypeInv
  <2> QED
    BY <1>1, <2>1, CycleNat
<1>4. Disown(pipe.tail) \in Seq(Token) /\ Disown(wire) \in Seq(Token)
  BY <1>2, Disowned
<1>5. [of |-> asked', own |-> FALSE] \in Request /\ Disown(adapter) \in Seq(Request)
  <2>1. asked' \in Position
    BY <1>3, CycleNat DEF Position
  <2>2. Disown(adapter) \in Seq(Request)
    BY <1>2, DisownedRequests
  <2> QED
    BY <2>1, <2>2 DEF Request
<1>6. adapter' \in Seq(Request)
  BY <1>1, <1>5
<1>7. pipe' \in Pipe /\ pipe'.done = <<>>
  <2> DEFINE tail == Disown(pipe.tail)
  <2>1. tail \in Seq(Token) /\ pipe' = [pipe EXCEPT !.tail = tail]
    BY <1>1, <1>4
  <2> HIDE DEF tail
  <2> QED
    BY <1>2, <2>1 DEF Pipe
<1>8. 0 \in 0..Retries
  BY CycleNat
<1>9. TypeInv'
  BY <1>1, <1>3, <1>4, <1>6, <1>7, <1>8 DEF TypeInv
<1> QED
  BY <1>1, <1>7, <1>9, NothingRead DEF TextInv

\* A new connection owes nothing, and its late banner casts doubt.
LEMMA ConnectStep == ExchangeInv /\ Connect => TypeInv' /\ TextInv'
<1> SUFFICES ASSUME ExchangeInv, Connect PROVE TypeInv' /\ TextInv'
  OBVIOUS
<1>1. /\ TypeInv /\ phase' = "idle" /\ pipe' = FreshPipe
      /\ adapter' = <<>> /\ cancelled' = 0
      /\ UNCHANGED <<asked, verdict, attempt, reinit>>
  BY DEF ExchangeInv, Connect
<1>2. \/ doubt' = FALSE /\ wire' = <<>>
      \/ doubt' \in BOOLEAN /\ doubt' /\ wire' = Banner
  <2>1. PICK late \in {FALSE, Faulty} : /\ wire' = IF late THEN Banner ELSE <<>>
                                        /\ doubt' = late
    BY DEF Connect
  <2>2. late \in BOOLEAN
    BY ExchangeAssumption
  <2>3. CASE late = TRUE
    BY <2>1, <2>3
  <2>4. CASE late = FALSE
    BY <2>1, <2>4
  <2> QED
    BY <2>2, <2>3, <2>4
<1>3. wire' \in Seq(Token) /\ doubt' \in BOOLEAN
  BY <1>2, NothingRead, Banners
<1>4. /\ pipe' \in Pipe /\ pipe'.owed = 0 /\ pipe'.tail = <<>> /\ pipe'.done = <<>>
  BY <1>1, NothingRead DEF FreshPipe, Pipe
<1>5. TypeInv'
  <2>1. cancelled' \in 0..MaxCancels /\ adapter' \in Seq(Request)
    BY <1>1, CycleNat, NothingRead
  <2> QED
    BY <1>1, <1>3, <1>4, <2>1 DEF TypeInv
<1>6. ASSUME ~doubt'
      PROVE  Framing(pipe'.tail, wire') /\ pipe'.owed = Len(adapter') + Seen(pipe', wire')
  BY <1>1, <1>2, <1>4, <1>6, NothingRead DEF Seen
<1> QED
  BY <1>1, <1>4, <1>5, <1>6, NothingRead DEF TextInv

\* The adapter's answer moves a reply from the requests to the wire.
LEMMA AnswersStep == ExchangeInv /\ Answers => TypeInv' /\ TextInv'
<1> SUFFICES ASSUME ExchangeInv, Answers PROVE TypeInv' /\ TextInv'
  OBVIOUS
<1>1. /\ TypeInv /\ TextInv /\ adapter # <<>> /\ adapter' = Tail(adapter)
      /\ wire \in Seq(Token) /\ adapter \in Seq(Request) /\ pipe \in Pipe
      /\ UNCHANGED <<phase, asked, verdict, attempt, pipe, reinit, cancelled, doubt>>
  BY DEF ExchangeInv, Answers, TypeInv
<1>2. PICK kind \in {"answer", "nodata"} : wire' = wire \o Framed(kind, adapter[1])
  <2> DEFINE said == IF Head(adapter).of \in Silent THEN "nodata" ELSE "answer"
  <2>1. said \in {"answer", "nodata"}
    OBVIOUS
  <2>2. Head(adapter) = adapter[1]
    BY <1>1
  <2>3. wire' = wire \o Framed(said, Head(adapter))
    BY DEF Answers
  <2> HIDE DEF said
  <2> QED
    BY <2>1, <2>2, <2>3
<1>3. kind \in Kind \ {"prompt"} /\ adapter[1] \in Request /\ pipe.tail \in Seq(Token)
  <2>1. kind \in Kind \ {"prompt"}
    BY DEF Kind
  <2>2. adapter[1] \in Request
    BY <1>1
  <2>3. pipe.tail \in Seq(Token)
    BY <1>1 DEF Pipe
  <2> QED
    BY <2>1, <2>2, <2>3
<1>4. Printed(wire', wire, kind, adapter[1])
  BY <1>1, <1>2, <1>3, FramedTokens
<1>5. wire' \in Seq(Token) /\ Texts(wire') = Texts(wire) + 1
  BY <1>4 DEF Printed
<1>6. /\ adapter' \in Seq(Request) /\ Len(adapter') = Len(adapter) - 1
      /\ Len(adapter) \in Nat
  BY <1>1
<1>7. TypeInv'
  BY <1>1, <1>5, <1>6 DEF TypeInv
<1>8. ASSUME Framing(pipe.tail, wire) PROVE Framing(pipe'.tail, wire')
  BY <1>1, <1>2, <1>3, <1>8, PrintedFraming
<1>9. Len(adapter') + Seen(pipe', wire') = Len(adapter) + Seen(pipe, wire)
  <2>1. Texts(pipe.tail) \in Nat /\ Texts(wire) \in Nat
    BY <1>1, <1>3, TextsFinite
  <2>2. Len(pipe.done) \in Nat
    BY <1>1 DEF Pipe
  <2>3. pipe' = pipe
    BY <1>1
  <2> DEFINE done == Len(pipe.done)
             read == Texts(pipe.tail)
             before == Texts(wire)
             after == Texts(wire')
  <2>4. Seen(pipe', wire') = done + read + after /\ Seen(pipe, wire) = done + read + before
    BY <2>3 DEF Seen
  <2>5. after = before + 1 /\ done \in Nat /\ read \in Nat /\ before \in Nat
    BY <2>1, <2>2, <1>5
  <2> HIDE DEF done, read, before, after
  <2> QED
    BY <2>4, <2>5, <1>6
<1>10. ASSUME OwnIsLast(pipe, wire, adapter) PROVE OwnIsLast(pipe', wire', adapter')
  BY <1>1, <1>2, <1>10, AnswerOwn
<1> QED
  BY <1>1, <1>7, <1>8, <1>9, <1>10 DEF TextInv

\* The announcement of a reply changes no count.
LEMMA PendingStep == ExchangeInv /\ AnswersPending => TypeInv' /\ TextInv'
<1> SUFFICES ASSUME ExchangeInv, AnswersPending PROVE TypeInv' /\ TextInv'
  OBVIOUS
<1>1. /\ TypeInv /\ TextInv /\ adapter # <<>> /\ wire = <<>>
      /\ wire \in Seq(Token) /\ adapter \in Seq(Request) /\ pipe \in Pipe
      /\ UNCHANGED <<phase, asked, verdict, attempt, pipe, reinit, adapter, cancelled, doubt>>
      /\ wire' = Framed("pending", adapter[1])
  <2>1. Head(adapter) = adapter[1]
    BY DEF ExchangeInv, AnswersPending, TypeInv
  <2> QED
    BY <2>1 DEF ExchangeInv, AnswersPending, TypeInv
<1>2. "pending" \in Kind \ {"prompt"} /\ adapter[1] \in Request /\ pipe.tail \in Seq(Token)
  BY <1>1 DEF Kind, Pipe
<1>3. wire' = wire \o Framed("pending", adapter[1])
  BY <1>1 DEF Framed
<1>4. Printed(wire', wire, "pending", adapter[1])
  BY <1>1, <1>2, <1>3, FramedTokens
<1>5. wire' \in Seq(Token) /\ Texts(wire') = Texts(wire)
  BY <1>4 DEF Printed
<1>6. TypeInv'
  BY <1>1, <1>5 DEF TypeInv
<1>7. ASSUME Framing(pipe.tail, wire) PROVE Framing(pipe'.tail, wire')
  BY <1>1, <1>2, <1>3, <1>7, PrintedFraming
<1>8. Seen(pipe', wire') = Seen(pipe, wire)
  BY <1>1, <1>5 DEF Seen
<1>9. ASSUME OwnIsLast(pipe, wire, adapter) PROVE OwnIsLast(pipe', wire', adapter')
  BY <1>1, <1>2, <1>9, PendingOwn
<1> QED
  BY <1>1, <1>6, <1>7, <1>8, <1>9 DEF TextInv

\* A lost reply, a reset of the adapter, and what the drain throws away: the text is not
\* accounted for while they last.
LEMMA FaultStep ==
    ASSUME ExchangeInv,
           LosesReply \/ ResetsItself \/ Drain \/ StartResync \/ LinkDrops \/ UNCHANGED vars
    PROVE  TypeInv' /\ TextInv'
<1>1. TypeInv /\ TextInv /\ wire \in Seq(Token) /\ adapter \in Seq(Request)
  BY DEF ExchangeInv, TypeInv
<1>2. CASE LosesReply
  <2>1. adapter' \in Seq(Request)
    BY <1>1, <1>2 DEF LosesReply
  <2> QED
    BY <1>1, <1>2, <2>1 DEF LosesReply, TypeInv, TextInv
<1>3. CASE ResetsItself
  <2>1. wire' \in Seq(Token) /\ adapter' \in Seq(Request)
    BY <1>1, <1>3, Banners, NothingRead DEF ResetsItself
  <2> QED
    BY <1>1, <1>3, <2>1 DEF ResetsItself, TypeInv, TextInv
<1>4. CASE Drain
  <2>1. wire' \in Seq(Token)
    BY <1>1, <1>4 DEF Drain
  <2> QED
    BY <1>1, <1>4, <2>1 DEF Drain, TypeInv, TextInv
<1>5. CASE StartResync
  <2>1. NeedsResync(pipe) \in BOOLEAN
    BY DEF NeedsResync
  <2> QED
    BY <1>1, <1>5, <2>1 DEF StartResync, TypeInv, TextInv
<1>6. CASE LinkDrops \/ UNCHANGED vars
  BY <1>1, <1>6 DEF LinkDrops, vars, TypeInv, TextInv
<1> QED
  BY <1>2, <1>3, <1>4, <1>5, <1>6

\* Every step keeps the invariant of the exchange.
LEMMA StepExchange == ExchangeInv /\ [Next]_vars => ExchangeInv'
<1> SUFFICES ASSUME ExchangeInv, [Next]_vars PROVE ExchangeInv'
  OBVIOUS
<1>1. LedgerInv'
  BY StepLedger DEF ExchangeInv
<1>2. TypeInv' /\ TextInv'
  BY SendStep, ReceiveStep, ConcludeStep, ProbeStep, ProbeEndsStep, CancelStep, CancelSendStep,
     ConnectStep, AnswersStep, PendingStep, FaultStep DEF Next, Terminal, Adapter
<1> QED
  BY <1>1, <1>2 DEF ExchangeInv

\* Everything said of the exchange's text rests on this invariant.
THEOREM ExchangeInvariant == Spec => []ExchangeInv
<1>1. Init => ExchangeInv
  BY InitLedger, InitExchange DEF ExchangeInv
<1> QED
  BY <1>1, StepExchange, PTL DEF Spec

\* Every variable keeps its range: the count never passes the ceiling by more than the
\* commands that may be cancelled.
THEOREM ExchangeTypeCorrect == Spec => []TypeOK
<1>1. ExchangeInv => TypeOK
  <2> SUFFICES ASSUME ExchangeInv PROVE TypeOK
    OBVIOUS
  <2>1. TypeInv /\ LedgerInv /\ LedgerBound
    BY DEF ExchangeInv, LedgerInv
  <2>2. /\ pipe.owed \in Nat /\ pipe.dirty \in BOOLEAN
        /\ pipe.tail \in Seq(Token) /\ pipe.done \in Seq(Seq(Token))
    BY <2>1 DEF TypeInv, Pipe
  <2>3. pipe.owed \in 0..(MaxOwed + MaxCancels)
    <3>1. cancelled \in 0..MaxCancels
      BY <2>1 DEF TypeInv
    <3> QED
      BY <2>1, <2>2, <3>1, CycleNat, MaxOwedAssumption DEF LedgerBound
  <2> QED
    BY <2>1, <2>2, <2>3 DEF TypeOK, TypeInv, LedgerInv
<1> QED
  BY <1>1, ExchangeInvariant, PTL

\* Unless a reply was lost, thrown away or printed unasked, the prompts the ledger says are
\* owed are the ones the adapter is still to send.
THEOREM LedgerIsExact == Spec => []LedgerExact
<1>1. ExchangeInv => LedgerExact
  <2> SUFFICES ASSUME ExchangeInv, ~doubt, phase \in {"idle", "collect", "probe"}
               PROVE  pipe.owed = Len(pipe.done) + Outstanding
    BY DEF LedgerExact
  <2>1. /\ pipe.owed = Len(adapter) + Seen(pipe, wire)
        /\ pipe \in Pipe /\ wire \in Seq(Token) /\ adapter \in Seq(Request)
    BY DEF ExchangeInv, TypeInv, TextInv
  <2>2. pipe.tail \in Seq(Token) /\ Len(pipe.done) \in Nat /\ Len(adapter) \in Nat
    BY <2>1 DEF Pipe
  <2>3. Texts(pipe.tail) \in Nat /\ Texts(wire) \in Nat
    BY <2>1, <2>2, TextsFinite
  <2> QED
    BY <2>1, <2>2, <2>3 DEF Seen, Outstanding
<1> QED
  BY <1>1, ExchangeInvariant, PTL

\* A block handed to a caller is one whole reply.
THEOREM BlocksWhole == Spec => []BlocksAreWhole
<1>1. ExchangeInv => BlocksAreWhole
  <2> SUFFICES ASSUME ExchangeInv, ~doubt, NEW i \in DOMAIN pipe.done
               PROVE  Texts(pipe.done[i]) = 1
    BY DEF BlocksAreWhole
  <2>1. /\ pipe.done \in Seq(Seq(Token)) /\ i \in 1..Len(pipe.done)
        /\ WholeBlocks(pipe.done)
    BY DEF ExchangeInv, TypeInv, TextInv, Pipe
  <2>2. pipe.done[i] \in Seq(Token) /\ Len(pipe.done[i]) = 1 /\ Textual(pipe.done[i][1])
    BY <2>1 DEF WholeBlocks
  <2>3. pipe.done[i] = <<pipe.done[i][1]>>
    BY <2>2, OneElement
  <2> QED
    BY <2>2, <2>3, TextsOne
<1> QED
  BY <1>1, ExchangeInvariant, PTL

\* A collection that ends satisfied, on no doubt, is given its own command's reply, and
\* what it discards as stale is somebody else's.
LEMMA SatisfiedStep ==
    ASSUME ExchangeInv, Conclude \/ ProbeEnds, Satisfied(pipe), ~doubt
    PROVE  /\ OwnBlock
           /\ \A b \in Range(Front(pipe.done)) : \A t \in Range(b) : ~t.own
<1>1. /\ phase \in {"collect", "probe"} /\ pipe \in Pipe
      /\ wire \in Seq(Token) /\ adapter \in Seq(Request)
      /\ OwnIsLast(pipe, wire, adapter) /\ WholeBlocks(pipe.done)
      /\ pipe.owed = Len(adapter) + Seen(pipe, wire)
  BY DEF ExchangeInv, TypeInv, TextInv, Conclude, ProbeEnds
<1>2. /\ pipe.tail \in Seq(Token) /\ pipe.done \in Seq(Seq(Token))
      /\ pipe.owed \in Nat /\ Len(pipe.done) \in Nat /\ Len(adapter) \in Nat
  BY <1>1 DEF Pipe
<1>3. Texts(pipe.tail) \in Nat /\ Texts(wire) \in Nat
  BY <1>1, <1>2, TextsFinite
<1>4. Len(adapter) = 0 /\ Texts(pipe.tail) = 0 /\ Texts(wire) = 0
  BY <1>1, <1>2, <1>3 DEF Satisfied, Seen
<1>5. adapter = <<>> /\ NoText(wire) /\ NoText(pipe.tail)
  <2>1. adapter = <<>>
    BY <1>1, <1>4
  <2> QED
    BY <2>1, <1>1, <1>2, <1>4, TextsNone
<1>6. pipe.owed > 0
  <2>1. LedgerInv
    BY DEF ExchangeInv
  <2> QED
    BY <2>1, <1>1, <1>2 DEF LedgerInv, PipeShape
<1>7. Len(pipe.done) > 0
  BY <1>2, <1>6 DEF Satisfied
<1> DEFINE n == Len(pipe.done)
<1>8. \A i \in 1..n : /\ pipe.done[i] \in Seq(Token) /\ Len(pipe.done[i]) = 1
                      /\ DOMAIN pipe.done[i] = 1..1
                      /\ pipe.done[i][1].own <=> i = n
  <2> SUFFICES ASSUME NEW i \in 1..n
               PROVE  /\ pipe.done[i] \in Seq(Token) /\ Len(pipe.done[i]) = 1
                      /\ DOMAIN pipe.done[i] = 1..1
                      /\ pipe.done[i][1].own <=> i = n
    OBVIOUS
  <2>1. pipe.done[i] \in Seq(Token)
    BY <1>2
  <2>2. Len(pipe.done[i]) = 1
    BY <1>1 DEF WholeBlocks
  <2>3. DOMAIN pipe.done[i] = 1..1
    BY <2>1, <2>2
  <2>4. pipe.done[i][1].own <=> i = n
    BY <1>1, <1>5 DEF OwnIsLast
  <2> QED
    BY <2>1, <2>2, <2>3, <2>4
<1>9. Block(pipe) = pipe.done[n]
  BY <1>2, <1>7 DEF Block, Last
<1>10. OwnBlock
  <2>1. n \in 1..n
    BY <1>2, <1>7
  <2>2. DOMAIN Block(pipe) = 1..1 /\ Block(pipe)[1].own
    BY <2>1, <1>8, <1>9
  <2>3. \A t \in Range(Block(pipe)) : t = Block(pipe)[1]
    BY <2>2 DEF Range
  <2> QED
    BY <2>2, <2>3 DEF OwnBlock
<1>11. ASSUME NEW b \in Range(Front(pipe.done)), NEW t \in Range(b) PROVE ~t.own
  <2>1. PICK i \in 1..(n - 1) : b = pipe.done[i]
    <3>1. Front(pipe.done) = SubSeq(pipe.done, 1, n - 1)
      BY DEF Front
    <3>2. /\ DOMAIN SubSeq(pipe.done, 1, n - 1) = 1..(n - 1)
          /\ \A i \in 1..(n - 1) : SubSeq(pipe.done, 1, n - 1)[i] = pipe.done[i]
      BY <1>2, <1>7
    <3> QED
      BY <3>1, <3>2, <1>11 DEF Range
  <2>2. i \in 1..n /\ i # n
    BY <1>2
  <2>3. DOMAIN b = 1..1 /\ ~b[1].own
    BY <2>1, <2>2, <1>8
  <2>4. t = b[1]
    BY <2>3, <1>11 DEF Range
  <2> QED
    BY <2>3, <2>4
<1> QED
  BY <1>10, <1>11

\* A satisfied collection returns its own command's reply.
THEOREM SatisfiedOwn == Spec => SatisfiedIsOwn
<1>1. ExchangeInv /\ [Next]_vars
        => [(Conclude \/ ProbeEnds) /\ Satisfied(pipe) /\ ~doubt
               => /\ OwnBlock
                  /\ \A b \in Range(Front(pipe.done)) : \A t \in Range(b) : ~t.own]_vars
  BY SatisfiedStep
<1> QED
  BY <1>1, ExchangeInvariant, PTL DEF Spec, SatisfiedIsOwn
=============================================================================
