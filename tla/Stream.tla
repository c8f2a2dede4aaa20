------------------------------- MODULE Stream -------------------------------
(***************************************************************************)
(* One streamed answer: the lines an upstream site sends, what pipeStream  *)
(* makes of them for the caller's protocol, what it counts meanwhile, and  *)
(* what handleInference does when the stream returns: book it, try another *)
(* account without the caller noticing, or cut the answer short.           *)
(*                                                                         *)
(* A line of the upstream is a record of the tokens it carries as text,    *)
(* reasoning and tool calls and of what it ends.  What the caller receives *)
(* is a sequence of events: for /v1/messages those of the Anthropic        *)
(* protocol, otherwise the lines passed on and the closing ones.           *)
(***************************************************************************)
EXTENDS Integers, Sequences, FiniteSets

CONSTANTS Limits,       \* the output limits a caller may declare; 0 for none
          Sizes,        \* the tokens a delta may add to the counter
          MaxLines,     \* bound: lines the upstream sites send
          MaxSwitches   \* maxAccountSwitches

ASSUME StreamAssumption ==
  /\ Limits \subseteq Nat /\ Sizes \subseteq Nat \ {0}
  /\ MaxLines \in Nat /\ MaxSwitches \in Nat

VARIABLES
  endpoint,  \* the endpoint called: "chat", "responses" or "messages"
  limit,     \* the declared output limit
  pc,        \* where handleInference is
  site,      \* the protocol of the upstream site: "openai" or "anthropic"
  open,      \* the site's stream: "open", "finished" (its reason given), "ended"
  lines,     \* lines read
  counted,   \* tokenizer.Counter of this attempt
  rewriter,  \* the anthropicOutputRewriter of this attempt
  sent,      \* the events the caller has received
  result,    \* how pipeStream returned
  switches,  \* accounts changed
  booked     \* tokens booked on the key, -1 before

vars == <<endpoint, limit, pc, site, open, lines, counted, rewriter, sent, result,
          switches, booked>>
request == <<endpoint, limit>>
----------------------------------------------------------------------------
(* What is read and what is written *)

Line(text, thinking, tool, end) ==
  [text |-> text, thinking |-> thinking, tool |-> tool, end |-> end]

Deltas == {Line(n, 0, 0, "none") : n \in Sizes} \cup {Line(0, n, 0, "none") : n \in Sizes}
            \cup {Line(0, 0, n, "none") : n \in Sizes} \cup {Line(n, n, 0, "none") : n \in Sizes}

\* Blank lines, event names, usage: lines without text.
Blank == Line(0, 0, 0, "none")

\* The line with finish_reason (response.completed, message_delta), and the
\* last one ([DONE], message_stop).
Finishing == {Line(0, 0, 0, r) : r \in {"stop", "length", "tool_calls"}}
Ending == Line(0, 0, 0, "done")

Possible ==
  CASE open = "open"     -> {d \in Deltas : site = "anthropic" => d.text = 0 \/ d.thinking = 0} \cup {Blank} \cup Finishing
    [] open = "finished" -> {Blank, Ending}
    [] OTHER             -> {}

Event(name, kind, index, tokens) ==
  [name |-> name, kind |-> kind, index |-> index, tokens |-> tokens]

\* anthropicStreamConverter.Convert: only text deltas and message_delta become
\* chunks; max_tokens becomes length, every other stop reason stop.
Converted(line) ==
  IF line.text > 0 THEN <<Line(line.text, 0, 0, "none")>>
  ELSE IF line.end \in {"stop", "length", "tool_calls"}
       THEN <<Line(0, 0, 0, IF line.end = "length" THEN "length" ELSE "stop")>>
       ELSE <<>>

\* responsesStreamDelta and chatStreamDelta read text, reasoning and tool calls.
StreamDelta(chunk) == chunk.text + chunk.thinking + chunk.tool

StopReason(finish) ==
  CASE finish = "length"     -> "max_tokens"
    [] finish = "tool_calls" -> "tool_use"
    [] OTHER                 -> "end_turn"

\* The limit with a quarter and eight tokens of tolerance; 0 for no limit.
OutputHardCap == IF limit = 0 THEN 0 ELSE limit + limit \div 4 + 8

OverCap(tokens) == OutputHardCap > 0 /\ tokens > OutputHardCap
----------------------------------------------------------------------------
(* anthropicOutputRewriter; out collects the events of one call *)

NewRewriter == [opened |-> FALSE, kind |-> "none", index |-> 0, stop |-> "end_turn"]

\* The rewriter r after it has written the events.
Wrote(r, events) == [r |-> r, out |-> events]

Open(r) ==
  Wrote([r EXCEPT !.opened = TRUE],
        IF r.opened THEN <<>> ELSE <<Event("message_start", "none", 0, 0)>>)

SwitchBlock(w, kind) ==
  IF w.r.kind = kind THEN w
  ELSE LET i == IF w.r.kind = "none" THEN w.r.index ELSE w.r.index + 1
           left == IF w.r.kind = "none" THEN <<>>
                   ELSE <<Event("block_stop", w.r.kind, w.r.index, 0)>>
       IN  Wrote([w.r EXCEPT !.kind = kind, !.index = i],
                 w.out \o Append(left, Event("block_start", kind, i, 0)))

WriteDelta(w, kind, tokens) ==
  IF tokens = 0 THEN w
  ELSE LET v == SwitchBlock(w, kind)
       IN  Wrote(v.r, Append(v.out, Event("delta", kind, v.r.index, tokens)))

Rewrite(r, chunk) ==
  LET told == IF chunk.end \in {"none", "done"} THEN r
              ELSE [r EXCEPT !.stop = StopReason(chunk.end)]
  IN  IF chunk.text + chunk.thinking = 0 THEN Wrote(told, <<>>)
      ELSE WriteDelta(WriteDelta(Open(told), "thinking", chunk.thinking),
                      "text", chunk.text)

Finish(r) ==
  LET w == SwitchBlock(Open(r), "text")
  IN  Wrote(w.r, w.out \o <<Event("block_stop", "text", w.r.index, 0),
                            Event("message_delta", w.r.stop, 0, 0),
                            Event("message_stop", "none", 0, 0)>>)
----------------------------------------------------------------------------
(* pipeStream *)

UseAnthropic == endpoint # "responses" /\ site = "anthropic"

Chunks(line) == IF UseAnthropic THEN Converted(line) ELSE <<line>>

PassedOn(chunk) ==
  IF chunk.end = "done" THEN Event("done", "none", 0, 0)
  ELSE IF chunk.end # "none" THEN Event("finish", chunk.end, 0, 0)
       ELSE Event("line", "none", 0, StreamDelta(chunk))

\* emit: the events a line becomes, and the rewriter after it.
Emitted(line) ==
  LET c == Chunks(line)
  IN  IF c = <<>> THEN Wrote(rewriter, <<>>)
      ELSE IF endpoint = "messages" THEN Rewrite(rewriter, c[1])
           ELSE Wrote(rewriter, <<PassedOn(c[1])>>)

\* Faulty variant: what the site sends is counted, converted or not.
MeteredAsReceived(line) == StreamDelta(line)

\* What the counter grows by.
Metered(line) == IF Chunks(line) = <<>> THEN 0 ELSE StreamDelta(Chunks(line)[1])

\* finishTruncatedStream, finishTruncatedResponses (finishOverLimitResponses
\* only differs in the reason) and finishTruncatedMessages, which closes block
\* 0 whatever block is open.
Truncation ==
  CASE endpoint = "chat"      -> <<Event("finish", "length", 0, 0), Event("done", "none", 0, 0)>>
    [] endpoint = "responses" -> <<Event("finish", "incomplete", 0, 0), Event("done", "none", 0, 0)>>
    [] OTHER                  -> <<Event("block_stop", "text", 0, 0),
                                   Event("message_delta", "max_tokens", 0, 0),
                                   Event("message_stop", "none", 0, 0)>>

\* Past the hard cap the answer is closed on the spot: by the rewriter, with
\* the reason set, or by the endpoint's overLimit or truncate.
Capped(r) ==
  IF endpoint = "messages" THEN Finish([r EXCEPT !.stop = "max_tokens"]).out ELSE Truncation

\* At the end of the stream: [DONE] for a converted stream, the rewriter's
\* closing events for /v1/messages, nothing for lines passed on.
Closing ==
  IF endpoint = "messages" THEN Finish(rewriter).out
  ELSE IF UseAnthropic THEN <<Event("done", "none", 0, 0)>> ELSE <<>>

started == sent # <<>>

Returns(how) == pc' = "returned" /\ result' = how

\* One line: count it, then write what it becomes, then look at the cap.
ReadLine(line) ==
  LET w == Emitted(line)
      n == counted + Metered(line)
  IN  /\ pc = "piping" /\ lines < MaxLines /\ line \in Possible
      /\ lines' = lines + 1
      /\ open' = IF line.end = "none" THEN open ELSE IF line.end = "done" THEN "ended" ELSE "finished"
      /\ counted' = n
      /\ rewriter' = w.r
      /\ IF OverCap(n)
         THEN sent' = sent \o w.out \o Capped(w.r) /\ Returns("capped")
         ELSE sent' = sent \o w.out /\ UNCHANGED <<pc, result>>
      /\ UNCHANGED <<request, site, switches, booked>>

\* The caller is gone in the middle of what a line becomes: the line is counted.
CallerGone(line) ==
  LET w == Emitted(line)
  IN  /\ pc = "piping" /\ lines < MaxLines /\ line \in Possible /\ w.out # <<>>
      /\ lines' = lines + 1
      /\ counted' = counted + Metered(line)
      /\ rewriter' = w.r
      /\ \E i \in 0..(Len(w.out) - 1) : sent' = sent \o SubSeq(w.out, 1, i)
      /\ Returns("gone")
      /\ UNCHANGED <<request, site, open, switches, booked>>

\* An error event of the site, seen before anything of it is passed on.
Shortfall ==
  /\ pc = "piping" /\ lines < MaxLines /\ open # "ended"
  /\ lines' = lines + 1
  /\ Returns("shortfall")
  /\ UNCHANGED <<request, site, open, counted, rewriter, sent, switches, booked>>

\* The connection to the site breaks: what was sent stays as it is.
ReadFails ==
  /\ pc = "piping"
  /\ Returns("broken")
  /\ UNCHANGED <<request, site, open, lines, counted, rewriter, sent, switches, booked>>

EndOfStream ==
  /\ pc = "piping"
  /\ sent' = sent \o Closing
  /\ Returns("ok")
  /\ UNCHANGED <<request, site, open, lines, counted, rewriter, switches, booked>>
----------------------------------------------------------------------------
(* handleInference *)

\* A call that was answered with status 200.  A site of the Anthropic protocol
\* has no /v1/responses.
Send(s) ==
  /\ pc = "send"
  /\ s = "anthropic" => endpoint # "responses"
  /\ pc' = "piping"
  /\ site' = s
  /\ open' = "open"
  /\ counted' = 0
  /\ rewriter' = NewRewriter
  /\ UNCHANGED <<request, lines, sent, result, switches, booked>>

\* Faulty variant: the answer starts over although part of it was delivered.
RetryAnyway ==
  /\ pc = "returned" /\ result = "shortfall" /\ switches < MaxSwitches
  /\ pc' = "send"
  /\ switches' = switches + 1
  /\ UNCHANGED <<request, site, open, lines, counted, rewriter, sent, result, booked>>

\* Nothing has been written yet: another account starts the answer over.
Retry ==
  /\ pc = "returned" /\ result = "shortfall" /\ switches < MaxSwitches /\ ~started
  /\ pc' = "send"
  /\ switches' = switches + 1
  /\ UNCHANGED <<request, site, open, lines, counted, rewriter, sent, result, booked>>

\* Otherwise, or when no other account is to be had, what was counted is booked
\* and the answer closed: 503 when nothing was sent.
CutShort ==
  /\ pc = "returned" /\ result = "shortfall"
  /\ pc' = "answered"
  /\ booked' = counted
  /\ sent' = IF started THEN sent \o Truncation ELSE <<Event("error", "none", 0, 0)>>
  /\ UNCHANGED <<request, site, open, lines, counted, rewriter, result, switches>>

Book ==
  /\ pc = "returned" /\ result # "shortfall"
  /\ pc' = "answered"
  /\ booked' = counted
  /\ UNCHANGED <<request, site, open, lines, counted, rewriter, sent, result, switches>>

Init ==
  /\ endpoint \in {"chat", "responses", "messages"}
  /\ limit \in Limits
  /\ pc = "send" /\ site = "openai" /\ open = "open" /\ lines = 0
  /\ counted = 0 /\ rewriter = NewRewriter /\ sent = <<>>
  /\ result = "none" /\ switches = 0 /\ booked = -1

Next ==
  \/ \E s \in {"openai", "anthropic"} : Send(s)
  \/ \E line \in Possible : ReadLine(line) \/ CallerGone(line)
  \/ Shortfall \/ ReadFails \/ EndOfStream
  \/ Retry \/ CutShort \/ Book

Spec == Init /\ [][Next]_vars
----------------------------------------------------------------------------
(* Properties *)

\* The tokens of a sequence of events.
Tokens(events) ==
  LET sum[i \in 0..Len(events)] == IF i = 0 THEN 0 ELSE sum[i - 1] + events[i].tokens
  IN  sum[Len(events)]

Delivered == Tokens(sent)
At(name) == {i \in DOMAIN sent : sent[i].name = name}
Stops(i, j) == {k \in i..j : sent[k].name = "block_stop" /\ sent[k].index = sent[i].index}

\* An answer of /v1/messages that was cut short by a shortfall while a second
\* block was open: finishTruncatedMessages closes the first block again.
ClosedTheWrongBlock ==
  endpoint = "messages" /\ pc = "answered" /\ result = "shortfall" /\ rewriter.index > 0

(* Whatever the upstream sends, wherever it breaks off and however often the
   account is changed, a caller of /v1/messages is sent one message: it starts
   once, blocks are numbered in order and one is closed before the next opens,
   every delta belongs to the open block of its kind, and all are closed when
   the message stops.  Nothing follows the end of any answer, every answer the
   upstream or the gateway brings to an end has one, and one cut for its limit
   says so.  The exception is named: ClosedTheWrongBlock. *)
AnswersAreWhole ==
  LET starts == At("block_start")
      ends == At("done") \cup At("message_stop") \cup At("error")
  IN  /\ endpoint = "messages" /\ sent # <<>> /\ sent[1].name # "error" =>
           At("message_start") = {1}
      /\ \A i \in starts :
           /\ sent[i].index = Cardinality({j \in starts : j < i})
           /\ \A j \in starts : j < i => Stops(j, i) # {}
           /\ ~ClosedTheWrongBlock => Cardinality(Stops(i, Len(sent))) <= 1
           /\ At("message_stop") # {} /\ ~ClosedTheWrongBlock => Stops(i, Len(sent)) # {}
      /\ \A i \in At("delta") : \E j \in starts :
           /\ j < i /\ Stops(j, i) = {}
           /\ sent[j].index = sent[i].index /\ sent[j].kind = sent[i].kind
      /\ ends \subseteq {Len(sent)}
      /\ pc = "answered" /\ (result \in {"capped", "shortfall"} \/ (result = "ok" /\ open = "ended")) =>
           ends # {}
      /\ pc = "answered" /\ result = "capped" =>
           sent[Len(sent) - 1].kind \in {"max_tokens", "length", "incomplete"}

(* What is booked is what the caller was sent, not what the site reports, over
   every change of account: exactly for lines passed on; on /v1/messages tool
   calls are counted although they are not sent.  A caller who leaves pays for
   the line under way.  The cap is overrun by less than one line. *)
BookedAsDelivered ==
  booked >= 0 =>
    /\ endpoint # "messages" /\ result # "gone" => booked = Delivered
    /\ Delivered <= booked
    /\ \E size \in {2 * n : n \in Sizes} \cup {0} :
         /\ result = "gone" /\ endpoint # "messages" => booked <= Delivered + size
         /\ OutputHardCap > 0 => booked <= OutputHardCap + size
=============================================================================
