-------------------------- MODULE EscapeGaugeProofs --------------------------
(***************************************************************************)
(* Theorems about EscapeGauge, for every input alphabet and stack size.    *)
(* The inductive invariant is TypeOK with StackShape: closing a scope      *)
(* keeps the machine in control mode when the stack is not empty, which is *)
(* harmless only because everything below the closed scope is quoted.      *)
(***************************************************************************)
EXTENDS EscapeGauge, SequenceTheorems, TLAPS

USE InputsAssumption, ScopesAssumption

\* Opening a scope appends it, or leaves a full stack as it was.
LEMMA OpenFacts ==
  ASSUME TypeOK, NEW b, OpenScope(b)
  PROVE  /\ Opens[b] \in Scopes
         /\ stack' \in Seq(Scopes) /\ Len(stack') <= MaxScopes /\ Len(stack') > 0
         /\ \/ stack' = stack
            \/ /\ Len(stack') = Len(stack) + 1
               /\ \A i \in 1 .. Len(stack) : stack'[i] = stack[i]
               /\ stack'[Len(stack) + 1] = Opens[b]
<1>1. Opens[b] \in Scopes  BY DEF OpenScope, Opens, Scopes
<1>2. stack \in Seq(Scopes) /\ Len(stack) \in Nat /\ Len(stack) <= MaxScopes
  BY DEF TypeOK
<1>3. CASE Len(stack) < MaxScopes
  <2>1. stack' = Append(stack, Opens[b])  BY <1>3 DEF OpenScope, Pushed
  <2>2. QED  BY <1>1, <1>2, <1>3, <2>1, AppendProperties
<1>4. CASE ~(Len(stack) < MaxScopes)
  <2>1. stack' = stack  BY <1>4 DEF OpenScope, Pushed
  <2>2. QED  BY <1>1, <1>2, <1>4, <2>1
<1>5. QED  BY <1>3, <1>4

\* Popping removes the top scope and leaves the rest as it was.
LEMMA PoppedFacts ==
  ASSUME TypeOK, stack # <<>>
  PROVE  /\ Popped \in Seq(Scopes)
         /\ Len(stack) \in Nat \ {0}
         /\ Len(Popped) = Len(stack) - 1
         /\ \A i \in 1 .. Len(stack) - 1 : Popped[i] = stack[i]
<1>1. stack \in Seq(Scopes) /\ Len(stack) \in Nat \ {0}  BY EmptySeq DEF TypeOK
<1> DEFINE n == Len(stack) - 1
<1>2. n \in Nat /\ n \in Int /\ 1 \in Int  BY <1>1
<1>3. \A i \in 1 .. n : stack[i] \in Scopes  BY <1>1, LenProperties
<1>4. Popped = SubSeq(stack, 1, n)  BY DEF Popped
<1> HIDE DEF n
<1>5. /\ Popped \in Seq(Scopes)
      /\ Len(Popped) = IF 1 <= n THEN n - 1 + 1 ELSE 0
      /\ \A i \in 1 .. n - 1 + 1 : Popped[i] = stack[1 + i - 1]
  BY <1>2, <1>3, <1>4, SubSeqProperties
<1>6. /\ Len(Popped) = n
      /\ \A i \in 1 .. n : Popped[i] = stack[i]
  BY <1>2, <1>5
<1>7. QED  BY <1>1, <1>5, <1>6 DEF n

\* What any resolved or returned byte leaves in header and last.
LEMMA OutputTypes ==
  ASSUME TypeOK, NEW b \in Bytes
  PROVE  /\ \A r \in Bytes : Resolve(b, r) =>
              /\ header' \in Headers
              /\ last' \in [input : Bytes, kind : {-1, 0, 1}, resolved : Bytes]
         /\ \A k \in {-1, 0} : Return(b, k) =>
              /\ header' \in Headers
              /\ last' \in [input : Bytes, kind : {-1, 0, 1}, resolved : Bytes]
<1>1. "text" \in Bytes  BY DEF Bytes
<1>2. ASSUME NEW r \in Bytes  PROVE NextHeader(r) \in Headers
  BY DEF TypeOK, Headers, NextHeader
<1>3. QED  BY <1>1, <1>2 DEF TypeOK, Resolve, Return

\* The machine starts with its types and an empty stack of escapes.
LEMMA InitInvariant == Init => TypeOK /\ StackShape
BY DEF Init, TypeOK, StackShape, AllQuoted, Modes, Headers, Bytes

\* Each step of the machine keeps the types.
LEMMA StepTypes ==
  ASSUME TypeOK, StackShape, NEW b \in Inputs, Step(b)
  PROVE  TypeOK'
<1>0. b \in Bytes /\ "ESC" \in Bytes  BY DEF Bytes
<1>1. CASE DataByte(b)
  BY <1>0, <1>1, OutputTypes DEF DataByte, TypeOK
<1>2. CASE EscapeByte
  BY <1>0, <1>2, OutputTypes DEF EscapeByte, TypeOK, Modes
<1>3. CASE LiteralEscape
  BY <1>0, <1>3, OutputTypes DEF LiteralEscape, TypeOK, Modes
<1>4. CASE OpenScope(b)
  BY <1>0, <1>4, OutputTypes, OpenFacts DEF OpenScope, TypeOK, Modes
<1>5. CASE UnknownEscape(b)
  BY <1>0, <1>5, OutputTypes DEF UnknownEscape, TypeOK
<1>6. CASE CloseScope(b)
  <2>1. stack # <<>>  BY <1>6 DEF CloseScope, StackShape
  <2>2. Popped \in Seq(Scopes) /\ Len(Popped) <= MaxScopes
    BY <2>1, PoppedFacts DEF TypeOK
  <2>3. QED  BY <1>0, <1>6, <2>2, OutputTypes DEF CloseScope, TypeOK, Modes
<1>7. CASE ScopedByte(b)
  BY <1>0, <1>7, OutputTypes DEF ScopedByte, TypeOK
<1>8. CASE QuotedByte(b)
  BY <1>0, <1>8, OutputTypes DEF QuotedByte, TypeOK, Modes
<1>9. QED  BY <1>1, <1>2, <1>3, <1>4, <1>5, <1>6, <1>7, <1>8 DEF Step

\* Each step of the machine keeps structural scopes on top of quoted ones.
LEMMA StepShape ==
  ASSUME TypeOK, StackShape, NEW b \in Inputs, Step(b)
  PROVE  StackShape'
<1>1. CASE DataByte(b)
  BY <1>1 DEF DataByte, StackShape, AllQuoted
<1>2. CASE EscapeByte
  <2>1. mode # "CONTROL"  BY <1>2 DEF EscapeByte
  <2>2. QED  BY <1>2, <2>1 DEF EscapeByte, StackShape, AllQuoted
<1>3. CASE LiteralEscape
  BY <1>3 DEF LiteralEscape, StackShape, AllQuoted
<1>4. CASE OpenScope(b)
  <2>1. AllQuoted(stack)  BY <1>4 DEF OpenScope, StackShape
  <2>2. stack' # <<>> /\ \A i \in 1 .. Len(stack') - 1 : stack'[i] = "QUOTED"
    BY <1>4, <2>1, OpenFacts DEF OpenScope, AllQuoted, TypeOK
  <2>3. mode' # "CONTROL" => AllQuoted(stack')
    <3>1. SUFFICES ASSUME mode' # "CONTROL"  PROVE AllQuoted(stack')
      OBVIOUS
    <3>2. b = "Q" /\ Opens[b] = "QUOTED"  BY <1>4, <3>1 DEF OpenScope, Opens
    <3>3. QED  BY <1>4, <2>1, <3>2, OpenFacts DEF OpenScope, AllQuoted, TypeOK
  <2>4. QED  BY <2>2, <2>3 DEF StackShape
<1>5. CASE UnknownEscape(b)
  BY <1>5 DEF UnknownEscape, StackShape, AllQuoted
<1>6. CASE CloseScope(b)
  <2>1. stack # <<>>  BY <1>6 DEF CloseScope, StackShape
  <2>2. AllQuoted(stack')
    BY <1>6, <2>1, PoppedFacts DEF CloseScope, StackShape, AllQuoted, TypeOK
  <2>3. QED  BY <1>6, <2>1, <2>2, PoppedFacts DEF CloseScope, StackShape, AllQuoted, TypeOK
<1>7. CASE ScopedByte(b)
  BY <1>7 DEF ScopedByte, StackShape, AllQuoted
<1>8. CASE QuotedByte(b)
  BY <1>8 DEF QuotedByte, StackShape, AllQuoted
<1>9. QED  BY <1>1, <1>2, <1>3, <1>4, <1>5, <1>6, <1>7, <1>8 DEF Step

\* The types and the shape of the stack hold in every reachable state, for
\* every alphabet and stack size (escape_step, gauge_step).
THEOREM Shape == Spec => [](TypeOK /\ StackShape)
<1>1. TypeOK /\ StackShape /\ [Next]_vars => (TypeOK /\ StackShape)'
  <2>1. CASE UNCHANGED vars
    BY <2>1 DEF vars, TypeOK, StackShape, AllQuoted
  <2>2. CASE Next
    BY <2>2, StepTypes, StepShape DEF Next
  <2>3. QED  BY <2>1, <2>2
<1>2. QED  BY <1>1, InitInvariant, PTL DEF Spec

\* Whatever is read, the machine stays in its modes and scopes, and never has
\* more scopes open than its stack holds (escape_step, gauge_step).
THEOREM EscapeTypes == Spec => []TypeOK
<1>1. QED  BY Shape, PTL

\* Control mode over a quoted scope rejects every byte for good
\* (escape.c: the default of the scope switch).
THEOREM Wedges == Spec => WedgedForGood
<1>1. TypeOK /\ StackShape /\ [Next]_vars => [Wedged => Wedged' /\ last'.kind = -1]_vars
  <2>1. SUFFICES ASSUME NEW b \in Inputs, Step(b), Wedged
                 PROVE  Wedged' /\ last'.kind = -1
    BY DEF Next
  <2>2. ~Closes(b, Top)  BY <2>1 DEF Wedged, Closes
  <2>3. ScopedByte(b)
    BY <2>1, <2>2 DEF Step, Wedged, DataByte, EscapeByte, LiteralEscape, OpenScope,
                      UnknownEscape, CloseScope, QuotedByte
  <2>4. QED  BY <2>1, <2>3 DEF ScopedByte, Wedged, Return, Top
<1>2. QED  BY <1>1, Shape, PTL DEF Spec, WedgedForGood

\* No sequence of bytes closes a quoted scope (escape.c: only a unit, a
\* record, a group or a file scope is popped).
THEOREM QuotedStays == Spec => QuotedNeverCloses
<1> DEFINE Kept == \A i \in DOMAIN stack : stack[i] = "QUOTED" =>
                      i \in DOMAIN stack' /\ stack'[i] = "QUOTED"
<1>1. TypeOK /\ StackShape /\ [Next]_vars => [Kept]_vars
  <2>1. SUFFICES ASSUME TypeOK, StackShape, NEW b \in Inputs, Step(b)
                 PROVE  Kept
    BY DEF Next
  <2>2. CASE OpenScope(b)
    BY <2>1, <2>2, OpenFacts DEF OpenScope
  <2>3. CASE CloseScope(b)
    <3>1. stack # <<>> /\ Top # "QUOTED"
      BY <2>3, <2>1 DEF CloseScope, Closes, StackShape
    <3>2. \A i \in DOMAIN stack : stack[i] = "QUOTED" => i \in 1 .. Len(stack) - 1
      BY <2>1, <3>1 DEF Top, TypeOK
    <3>3. \A i \in 1 .. Len(stack) - 1 : i \in DOMAIN Popped
      BY <2>1, <3>1, PoppedFacts DEF TypeOK
    <3>4. QED  BY <2>1, <2>3, <3>1, <3>2, <3>3, PoppedFacts DEF CloseScope
  <2>4. CASE UNCHANGED stack
    BY <2>4
  <2>5. QED
    BY <2>1, <2>2, <2>3, <2>4 DEF Step, DataByte, EscapeByte, LiteralEscape,
                                  UnknownEscape, ScopedByte, QuotedByte
<1>2. QED  BY <1>1, Shape, PTL DEF Spec, QuotedNeverCloses

\* Without quoting, scopes never nest and every stream leaves the machine in
\* a state escape_is_valid accepts, unless it ends on an escape.
UnquotedNeverNests ==
  "Q" \notin Inputs =>
    /\ Len(stack) <= 1
    /\ mode = "CONTROL" <=> stack # <<>>
    /\ mode # "ESCAPE_PENDING" => Valid

\* Input without a quote letter never nests scopes and never leaves a state
\* escape_is_valid rejects, except on a pending escape.
THEOREM Unquoted == Spec => []UnquotedNeverNests
<1>1. Init => UnquotedNeverNests
  BY DEF Init, UnquotedNeverNests, Valid
<1>2. TypeOK /\ StackShape /\ UnquotedNeverNests /\ [Next]_vars => UnquotedNeverNests'
  <2>1. CASE UNCHANGED vars
    BY <2>1 DEF vars, UnquotedNeverNests, Valid
  <2>2. CASE Next
    <3>1. SUFFICES ASSUME TypeOK, StackShape, UnquotedNeverNests, "Q" \notin Inputs,
                          NEW b \in Inputs, Step(b)
                   PROVE  /\ Len(stack') <= 1
                          /\ mode' = "CONTROL" <=> stack' # <<>>
                          /\ mode' # "ESCAPE_PENDING" => Valid'
      BY <2>2 DEF Next, UnquotedNeverNests
    <3>2. mode # "QUOTED_LITERAL"  BY <3>1 DEF UnquotedNeverNests, StackShape
    <3>3. CASE OpenScope(b)
      <4>1. stack = <<>>  BY <3>1, <3>3 DEF OpenScope, UnquotedNeverNests
      <4>2. Len(stack) = 0  BY <4>1, EmptySeq
      <4>3. b # "Q" /\ mode' = "CONTROL"  BY <3>1, <3>3 DEF OpenScope
      <4>4. Len(stack') = 1 /\ stack' # <<>>
        BY <3>1, <3>3, <4>1, <4>2, OpenFacts, EmptySeq
      <4>5. QED  BY <4>3, <4>4 DEF Valid
    <3>4. CASE CloseScope(b)
      <4>0. stack # <<>>  BY <3>1, <3>4 DEF CloseScope, StackShape
      <4>1. Len(stack) = 1
        BY <3>1, <4>0, PoppedFacts DEF UnquotedNeverNests
      <4>2. stack' = <<>> /\ mode' = "DATA"
        BY <3>1, <3>4, <4>0, <4>1, PoppedFacts, EmptySeq DEF CloseScope
      <4>3. QED  BY <4>2 DEF Valid
    <3>5. CASE ScopedByte(b)
      BY <3>1, <3>5 DEF ScopedByte, UnquotedNeverNests, Valid
    <3>6. CASE DataByte(b) \/ EscapeByte \/ LiteralEscape \/ UnknownEscape(b)
      BY <3>1, <3>2, <3>6 DEF DataByte, EscapeByte, LiteralEscape, UnknownEscape,
                              UnquotedNeverNests, Valid
    <3>7. QED
      BY <3>1, <3>2, <3>3, <3>4, <3>5, <3>6 DEF Step, QuotedByte
  <2>3. QED  BY <2>1, <2>2
<1>3. QED  BY <1>1, <1>2, Shape, PTL DEF Spec
=============================================================================
