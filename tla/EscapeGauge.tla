----------------------------- MODULE EscapeGauge -----------------------------
(***************************************************************************)
(* The kernel's escape machine (kernel/runtime/escape.c) as gauge_step     *)
(* drives it (gauge_stepper.c): bytes come in one at a time, most resolve  *)
(* to a byte for the gauge, ESC and a letter open a scope.  Upper and      *)
(* lower case letters are one token, the other bytes below 0x20 are        *)
(* "control" and all that is left is "text".                               *)
(***************************************************************************)
EXTENDS Integers, Sequences

Bytes == {"ESC", "F", "G", "R", "U", "Q", "FS", "GS", "RS", "control", "text"}

CONSTANTS Inputs,     \* the bytes the input holds
          MaxScopes   \* the size of scope_stack, 4 in the code

ASSUME InputsAssumption == Inputs \subseteq Bytes
ASSUME ScopesAssumption == MaxScopes \in Nat \ {0}

Scopes == {"NEXT_FILE", "NEXT_GROUP", "NEXT_RECORD", "NEXT_UNIT", "QUOTED"}
Modes == {"DATA", "ESCAPE_PENDING", "CONTROL", "QUOTED_LITERAL"}
Headers == {"PLAIN", "CONTROL", "ESCAPE", "QUOTED"}

\* The scope a token opens.
Opens == [F |-> "NEXT_FILE", G |-> "NEXT_GROUP", R |-> "NEXT_RECORD",
          U |-> "NEXT_UNIT", Q |-> "QUOTED"]

\* Fault: ESC closes a quoted scope.
ClosesQuoted(byte, scope) ==
  \/ scope = "NEXT_UNIT"
  \/ scope = "NEXT_FILE" /\ byte = "FS"
  \/ scope = "NEXT_GROUP" /\ byte = "GS"
  \/ scope = "NEXT_RECORD" /\ byte = "RS"
  \/ scope = "QUOTED" /\ byte = "ESC"

\* The bytes that close a scope: a unit is closed by whatever comes next, a
\* quoted scope by nothing.
Closes(byte, scope) ==
  \/ scope = "NEXT_UNIT"
  \/ scope = "NEXT_FILE" /\ byte = "FS"
  \/ scope = "NEXT_GROUP" /\ byte = "GS"
  \/ scope = "NEXT_RECORD" /\ byte = "RS"

VARIABLES mode, stack,  \* the escape state: mode and scope stack
          header,       \* gauge header, fed with resolved bytes
          last          \* the last call: its input, result and resolved byte

vars == <<mode, stack, header, last>>

Init == /\ mode = "DATA" /\ stack = <<>>
        /\ header = "PLAIN"
        /\ last = [input |-> "text", kind |-> 0, resolved |-> "text"]

Top == stack[Len(stack)]
Popped == SubSeq(stack, 1, Len(stack) - 1)

\* Fault: off by one at the end of scope_stack.
PushedBeyond(scope) == IF Len(stack) <= MaxScopes THEN Append(stack, scope) ELSE stack

\* A push onto a full stack fails and nobody looks.
Pushed(scope) == IF Len(stack) < MaxScopes THEN Append(stack, scope) ELSE stack

\* gauge_header_decode
NextHeader(byte) ==
  CASE header = "PLAIN"  -> IF byte = "ESC" THEN "ESCAPE"
                            ELSE IF byte \in {"FS", "GS", "RS", "control"} THEN "CONTROL"
                            ELSE "PLAIN"
    [] header = "ESCAPE" -> IF byte = "Q" THEN "QUOTED" ELSE "PLAIN"
    [] OTHER             -> "PLAIN"

Resolve(input, byte) ==
  /\ last' = [input |-> input, kind |-> 1, resolved |-> byte]
  /\ header' = NextHeader(byte)

\* escape_step returns 0, or -1 for a byte it has no use for; gauge_step then
\* leaves header and core alone.
Return(input, kind) ==
  /\ last' = [input |-> input, kind |-> kind, resolved |-> "text"]
  /\ UNCHANGED header

----------------------------------------------------------------------------
(* gauge_step, by the mode it finds *)

DataByte(b) ==
  /\ mode = "DATA" /\ b # "ESC"
  /\ Resolve(b, b)
  /\ UNCHANGED <<mode, stack>>

\* Fault: ESC is looked at before the mode.
EscapeByteAnywhere ==
  /\ mode # "ESCAPE_PENDING"
  /\ mode' = "ESCAPE_PENDING"
  /\ Return("ESC", 0)
  /\ UNCHANGED stack

\* ESC in data or in a quoted literal.
EscapeByte ==
  /\ \/ mode = "DATA"
     \/ mode = "QUOTED_LITERAL" /\ stack # <<>> /\ Top = "QUOTED"
  /\ mode' = "ESCAPE_PENDING"
  /\ Return("ESC", 0)
  /\ UNCHANGED stack

LiteralEscape ==
  /\ mode = "ESCAPE_PENDING"
  /\ mode' = "DATA"
  /\ Resolve("ESC", "ESC")
  /\ UNCHANGED stack

OpenScope(b) ==
  /\ mode = "ESCAPE_PENDING" /\ b \in DOMAIN Opens
  /\ stack' = Pushed(Opens[b])
  /\ mode' = IF b = "Q" THEN "QUOTED_LITERAL" ELSE "CONTROL"
  /\ Return(b, 0)

UnknownEscape(b) ==
  /\ mode = "ESCAPE_PENDING" /\ b \notin DOMAIN Opens \cup {"ESC"}
  /\ Return(b, -1)
  /\ UNCHANGED <<mode, stack>>

\* Fault: closing the last scope leaves the mode as it is.
CloseScopeStays(b) ==
  /\ mode = "CONTROL" /\ (stack # <<>> => Closes(b, Top))
  /\ stack' = Popped
  /\ Return(b, 0)
  /\ UNCHANGED mode

\* Control mode without a scope falls back to data, as after the last one.
CloseScope(b) ==
  /\ mode = "CONTROL" /\ (stack # <<>> => Closes(b, Top))
  /\ stack' = Popped
  /\ mode' = IF Popped = <<>> THEN "DATA" ELSE "CONTROL"
  /\ Return(b, 0)

ScopedByte(b) ==
  /\ mode = "CONTROL" /\ stack # <<>> /\ ~Closes(b, Top)
  /\ Return(b, IF Top = "QUOTED" THEN -1 ELSE 0)
  /\ UNCHANGED <<mode, stack>>

\* The byte counts as resolved, but *output is never assigned: gauge_step
\* reads whatever its local variable holds.  Without a scope the mode falls
\* back to data.
QuotedByte(b) ==
  /\ mode = "QUOTED_LITERAL"
  /\ stack # <<>> /\ Top = "QUOTED" => b # "ESC"
  /\ mode' = IF stack = <<>> THEN "DATA" ELSE mode
  /\ IF stack = <<>> THEN Return(b, 0)
                     ELSE \E garbage \in Bytes : Resolve(b, garbage)
  /\ UNCHANGED stack

Step(b) ==
  \/ DataByte(b)
  \/ b = "ESC" /\ (EscapeByte \/ LiteralEscape)
  \/ OpenScope(b) \/ UnknownEscape(b)
  \/ CloseScope(b) \/ ScopedByte(b)
  \/ QuotedByte(b)

Next == \E b \in Inputs : Step(b)

Spec == Init /\ [][Next]_vars

----------------------------------------------------------------------------
(* Properties *)

\* escape_is_valid
Valid == /\ mode # "ESCAPE_PENDING"
         /\ stack # <<>> => mode # "DATA"

\* Types of the state.
TypeOK ==
  /\ mode \in Modes /\ header \in Headers
  /\ stack \in Seq(Scopes) /\ Len(stack) <= MaxScopes
  /\ last \in [input : Bytes, kind : {-1, 0, 1}, resolved : Bytes]

AllQuoted(s) == \A i \in DOMAIN s : s[i] = "QUOTED"

\* However scopes are nested, and however often a push failed on a full
\* stack: the stack never underflows, a structural scope (unit, record, group,
\* file) is only ever on top of quoted ones, only while the machine is in
\* control mode, and a quoted literal is read under a quoted scope.
StackShape ==
  /\ \A i \in 1 .. Len(stack) - 1 : stack[i] = "QUOTED"
  /\ mode # "CONTROL" => AllQuoted(stack)
  /\ mode \in {"CONTROL", "QUOTED_LITERAL"} => stack # <<>>

Wedged == mode = "CONTROL" /\ stack # <<>> /\ Top = "QUOTED"

\* Control mode over a quoted scope has no way out: once there, every byte is
\* rejected for good.
WedgedForGood == [][Wedged => Wedged' /\ last'.kind = -1]_vars

\* A quoted scope is never closed again, by any sequence of bytes.
QuotedNeverCloses ==
  [][\A i \in DOMAIN stack : stack[i] = "QUOTED" =>
        i \in DOMAIN stack' /\ stack'[i] = "QUOTED"]_vars
=============================================================================
