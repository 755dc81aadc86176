------------------------------- MODULE Response --------------------------------
(***************************************************************************)
(* http_response: the status line, the headers and the body are put        *)
(* together in a second buffer, which is then written to the client, piece *)
(* by piece if the socket takes no more, until everything is written or    *)
(* write has failed five times.                                            *)
(***************************************************************************)
EXTENDS Stage, Buffer, Sequences, FiniteSets

CONSTANTS MaxFailures,  \* the max_try it begins with
          Pieces        \* the bytes a partial write takes

ASSUME ResponseAssumption == /\ MaxFailures \in Nat \ {0}
                             /\ Pieces \subseteq Nat \ {0}

VARIABLES code,      \* of the response
          body, resp, \* the buffers of the body and of the whole response
          pending,   \* the strings still to be appended, by their lengths
          announced, \* the content-length sent
          written, tries,
          got,       \* how many bytes of the response the client has
          skewed     \* history: it was sent others than the next ones

writeVars == <<written, tries, got, skewed>>
responseVars == <<code, body, resp, pending, announced, writeVars>>

NoResponse == /\ code = 0 /\ pending = <<>> /\ announced = 0
              /\ written = 0 /\ tries = 0 /\ got = 0 /\ skewed = FALSE

-----------------------------------------------------------------------------
\* A string is appended to the body.
AppendToBody == /\ stage = "body" /\ pending # <<>>
                /\ body' = AppendString(body, Head(pending))
                /\ pending' = Tail(pending)
                /\ UNCHANGED <<stage, code, resp, announced, writeVars>>

\* The digits of a number as %d prints them.
Digits(n) == Cardinality({k \in 0..9 : k = 0 \/ n >= 10^k})

Status == IF code = 200 THEN 15 ELSE 24

\* content-length, content-type, server and connection.
Headers == IF body.cursor > 0
             THEN <<18 + Digits(body.cursor), 25, 19, 18>> ELSE <<>>

BeginResponse == /\ stage = "body" /\ pending = <<>>
                 /\ stage' = "headers"
                 /\ pending' = <<Status>> \o Headers \o <<2>>
                 /\ announced' = body.cursor
                 /\ UNCHANGED <<code, body, resp, writeVars>>

AppendHeader == /\ stage = "headers" /\ pending # <<>>
                /\ resp' = AppendString(resp, Head(pending))
                /\ pending' = Tail(pending)
                /\ UNCHANGED <<stage, code, body, announced, writeVars>>

AppendBody == /\ stage = "headers" /\ pending = <<>>
              /\ stage' = "write"
              /\ resp' = AppendBuffer(resp, body)
              /\ written' = 0 /\ tries' = MaxFailures
              /\ got' = 0 /\ skewed' = FALSE
              /\ UNCHANGED <<code, body, pending, announced>>

\* write(client, p + written, outsiz - written) takes n bytes.
Takes(n) == /\ written' = written + n
            /\ got' = got + n
            /\ skewed' = (skewed \/ written # got)
            /\ UNCHANGED tries

\* Faulty: a partial write counts as a whole one.
WritePartAsAll == /\ stage = "write"
                  /\ \E n \in Pieces :
                       /\ n < resp.cursor - written
                       /\ got' = got + n
                       /\ skewed' = (skewed \/ written # got)
                  /\ written' = resp.cursor
                  /\ stage' = "sent"
                  /\ UNCHANGED <<code, body, resp, pending, announced, tries>>

WritePart == /\ stage = "write"
             /\ \E n \in Pieces : n < resp.cursor - written /\ Takes(n)
             /\ UNCHANGED <<stage, code, body, resp, pending, announced>>

WriteRest == /\ stage = "write"
             /\ Takes(resp.cursor - written)
             /\ stage' = "sent"
             /\ UNCHANGED <<code, body, resp, pending, announced>>

\* Faulty: the -1 of the failed write is added to what has been written.
WriteFailsAndCounts ==
  /\ stage = "write"
  /\ tries' = tries - 1
  /\ IF tries = 1 THEN stage' = "given up" /\ UNCHANGED written
                  ELSE written' = written - 1 /\ UNCHANGED stage
  /\ UNCHANGED <<code, body, resp, pending, announced, got, skewed>>

\* Faulty: after a failure it begins anew, with all the tries if it had got
\* anywhere.
WriteFailsAndRestarts ==
  /\ stage = "write"
  /\ IF written > 0
       THEN /\ written' = 0 /\ got' = 0
            /\ tries' = MaxFailures
            /\ UNCHANGED stage
       ELSE /\ tries' = tries - 1
            /\ stage' = IF tries = 1 THEN "given up" ELSE "write"
            /\ UNCHANGED <<written, got>>
  /\ UNCHANGED <<code, body, resp, pending, announced, skewed>>

\* The failures of one response are counted together, whatever is written in
\* between.
WriteFails == /\ stage = "write"
              /\ tries' = tries - 1
              /\ stage' = IF tries = 1 THEN "given up" ELSE "write"
              /\ UNCHANGED <<code, body, resp, pending, announced, written,
                             got, skewed>>

WriteLoop == WritePart \/ WriteRest \/ WriteFails

Respond == \/ AppendToBody \/ BeginResponse \/ AppendHeader \/ AppendBody
           \/ WriteLoop

-----------------------------------------------------------------------------
\* Whatever is put into them, and whatever size they have from the requests
\* before, both buffers have room for it and for the NUL behind it.
BuffersFit == Fits(body) /\ Fits(resp)

\* However the socket splits and refuses it, what the client has got is the
\* beginning of the response, no byte twice and none left out.
SentInOrder == stage \in {"write", "sent", "given up"} =>
                 /\ ~skewed /\ got = written
                 /\ 0 <= got /\ got <= resp.cursor

\* The loop ends in one of two ways: the client has got everything, with the
\* content-length of the body that follows the headers, or write has failed
\* MaxFailures times for this response, and never more often.
SentOrGivenUp ==
  /\ stage = "sent" => /\ got = resp.cursor
                       /\ got = announced + Status + 2 +
                            (IF announced = 0 THEN 0
                             ELSE 80 + Digits(announced))
                       /\ tries > 0
  /\ stage = "given up" => tries = 0 /\ got < resp.cursor
=============================================================================
