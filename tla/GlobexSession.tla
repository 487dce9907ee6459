---------------------------- MODULE GlobexSession ----------------------------
(***************************************************************************)
(* The FIX session with CME under OrderManager (cme/exchange): numbers,    *)
(* gaps and resend requests of the messages that come from the exchange.   *)
(*                                                                         *)
(* quickfix keeps the next number it expects and the messages that came    *)
(* too early; it asks for what is missing, and asks again for every        *)
(* message that is too early (SendRedundantResendRequests=Y).  Before a    *)
(* resend request leaves, OrderManager::toAdmin limits its range, with the *)
(* number of the last message that quickfix gave to OrderManager.          *)
(***************************************************************************)
EXTENDS Integers, Sequences

CONSTANT MaxResend  \* MAX_RESEND_SIZE

ASSUME SessionAssumption == MaxResend \in Nat \ {0}

VARIABLES
  sent,      \* the exchange's messages, by number
  wire,      \* numbers of the messages on their way to the gateway
  asks,      \* resend requests on their way to the exchange
  up,        \* logged on
  expected,  \* getExpectedTargetNum
  received,  \* m_current_received_seq, 0 before the first message
  held       \* numbers of the messages that quickfix keeps for later

sessionVars == <<sent, wire, asks, up, expected, received, held>>

\* high is the message that shows the gap; to = 0 asks for everything.
Ask == [from : Nat, to : Nat, high : Nat]

LastSent == Len(sent)

SessionInit ==
  /\ sent = <<>>
  /\ wire = <<>>
  /\ asks = <<>>
  /\ up = FALSE
  /\ expected = 1
  /\ received = 0
  /\ held = {}

\* The exchange numbers its messages, connected or not.
Send(ms) ==
  /\ sent' = sent \o ms
  /\ wire' = IF up THEN wire \o [i \in 1 .. Len(ms) |-> LastSent + i]
                   ELSE wire

\* Mutant: within the limit it asks up to the last message received.
AskUpToReceived(begin, end, high) ==
  [from |-> begin, high |-> high,
   to |-> IF end - begin > MaxResend THEN begin + MaxResend - 1 ELSE end]

\* appendResendRequestField.
appendResendRequestField(begin, end, high) ==
  [from |-> begin, high |-> high,
   to |-> IF end - begin > MaxResend THEN begin + MaxResend - 1 ELSE 0]

\* The logon answer has a number like any message.  It is given to
\* OrderManager at once, but counted in its turn.
LogonAnswer(logon) ==
  LET n == LastSent + 1
  IN  /\ ~up
      /\ up' = TRUE
      /\ sent' = Append(sent, logon)
      /\ received' = n
      /\ IF n = expected
           THEN expected' = n + 1 /\ UNCHANGED <<held, asks>>
           ELSE /\ held' = {n}
                /\ asks' = Append(asks,
                             appendResendRequestField(expected, n, n))
                /\ UNCHANGED expected
      /\ UNCHANGED wire

\* verify: a message that is too early is kept, and the gap asked for.
TooHigh ==
  /\ up
  /\ expected \notin held
  /\ wire # <<>>
  /\ Head(wire) > expected
  /\ wire' = Tail(wire)
  /\ held' = held \cup {Head(wire)}
  /\ asks' = Append(asks,
               appendResendRequestField(expected, received, Head(wire)))
  /\ UNCHANGED <<sent, up, expected, received>>

\* One that came before is dropped (PossDupFlag).
TooLow ==
  /\ up
  /\ expected \notin held
  /\ wire # <<>>
  /\ Head(wire) < expected
  /\ wire' = Tail(wire)
  /\ UNCHANGED <<sent, asks, up, expected, received, held>>

\* Mutant: what was kept is not taken out.
InTurnKept ==
  /\ up
  /\ \/ /\ expected \in held
        /\ UNCHANGED <<wire, held>>
     \/ /\ expected \notin held
        /\ wire # <<>>
        /\ Head(wire) = expected
        /\ wire' = Tail(wire)
        /\ UNCHANGED held
  /\ expected' = expected + 1
  /\ UNCHANGED <<sent, asks, up>>

\* The message whose turn it is, from the wire or from those kept.
InTurn ==
  /\ up
  /\ \/ /\ expected \in held
        /\ held' = held \ {expected}
        /\ UNCHANGED wire
     \/ /\ expected \notin held
        /\ wire # <<>>
        /\ Head(wire) = expected
        /\ wire' = Tail(wire)
        /\ UNCHANGED held
  /\ expected' = expected + 1
  /\ UNCHANGED <<sent, asks, up>>

\* setCurrentReceivedSeq, of fromAdmin and fromApp.  A logon that was kept is
\* only counted.
setCurrentReceivedSeq(logon) ==
  received' = IF expected \in held /\ sent[expected] = logon
                THEN received ELSE expected

\* The exchange sends again what it is asked for.
Resend ==
  /\ up
  /\ asks # <<>>
  /\ asks' = Tail(asks)
  /\ LET a    == Head(asks)
         last == IF a.to = 0 \/ a.to > LastSent THEN LastSent ELSE a.to
     IN  wire' = wire \o [i \in 1 .. last - a.from + 1 |-> a.from + i - 1]
  /\ UNCHANGED <<sent, up, expected, received, held>>

\* What is on its way is lost, and quickfix forgets what it kept.
Disconnect ==
  /\ up
  /\ up' = FALSE
  /\ wire' = <<>>
  /\ asks' = <<>>
  /\ held' = {}
  /\ UNCHANGED <<sent, expected, received>>

=============================================================================
