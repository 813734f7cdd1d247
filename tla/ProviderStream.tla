--------------------------- MODULE ProviderStream ---------------------------
(***************************************************************************)
(* llm_gateway/providers.py: what reaches the chat of a provider's server- *)
(* sent events, and the polling of a deep research.  A line is a record    *)
(* whose kind is what the parser sees: "other" (no data: prefix, empty or  *)
(* a comment), "broken" (not JSON), "end" ([DONE]), "text", "delta" and    *)
(* "summary" (pieces and whole of a reasoning summary), "noise" (any other *)
(* event).                                                                 *)
(***************************************************************************)
EXTENDS Naturals, Sequences, SequencesExt

CONSTANTS
  MaxPolls    \* settings.deep_research_max_polls

Event(kind, text) == [kind |-> kind, text |-> text]

\* (mutant of OpenAIStream) what follows the end is read too.
OpenAIStream_PastEnd(lines) ==
  LET kept == SelectSeq(lines, LAMBDA l : l.kind \in {"text", "delta"} /\ l.text # "")
  IN [n \in DOMAIN kept |-> Event(IF kept[n].kind = "text" THEN "token" ELSE "summary", kept[n].text)]

\* OpenAI: a summary that came in pieces is not repeated by its done event.
OpenAIStream(lines) ==
  LET Read(s, l) ==
        IF s.ended THEN s
        ELSE CASE l.kind = "end" -> [s EXCEPT !.ended = TRUE]
               [] l.kind = "text" -> [s EXCEPT !.out = Append(@, Event("token", l.text))]
               [] l.kind = "delta" ->
                    [s EXCEPT !.seen = TRUE,
                              !.out = IF l.text = "" THEN @ ELSE Append(@, Event("summary", l.text))]
               [] l.kind = "summary" /\ ~s.seen /\ l.text # "" ->
                    [s EXCEPT !.out = Append(@, Event("summary", l.text))]
               [] OTHER -> s
  IN FoldLeft(Read, [out |-> <<>>, seen |-> FALSE, ended |-> FALSE], lines).out

\* Anthropic and Google: text deltas only, to the end of the response.
PlainStream(lines) ==
  LET texts == SelectSeq(lines, LAMBDA l : l.kind = "text")
  IN [n \in DOMAIN texts |-> Event("token", texts[n].text)]

\* deep_research: what is yielded, and how it ends.  first: the status of the
\* first response; polls: what the polls answer, as long as they are read.
DeepResearch(first, text, polls) ==
  LET limit == IF MaxPolls < 1 THEN 1 ELSE MaxPolls
      Poll(s, status) ==
        IF s.end # "polling" \/ s.polls = limit THEN s
        ELSE CASE status = "completed" ->
                    IF text = "" THEN [s EXCEPT !.end = "configuration error", !.polls = @ + 1]
                    ELSE [out |-> Append(s.out, text), end |-> "done", polls |-> s.polls + 1]
               [] status \in {"failed", "cancelled", "incomplete"} ->
                    [s EXCEPT !.end = "configuration error", !.polls = @ + 1]
               [] status = "http error" -> [s EXCEPT !.end = "execution error", !.polls = @ + 1]
               [] OTHER ->
                    [s EXCEPT !.polls = @ + 1,
                       !.out = IF s.polls > 0 /\ s.polls % 6 = 0 THEN Append(@, "still") ELSE @]
      begun == [out |-> <<"started">>, end |-> "polling", polls |-> 0]
  IN CASE first = "completed" -> [out |-> <<text>>, end |-> "done", polls |-> 0]
       [] first = "no id" -> [out |-> <<>>, end |-> "configuration error", polls |-> 0]
       [] first = "http error" -> [out |-> <<>>, end |-> "execution error", polls |-> 0]
       [] OTHER -> LET last == FoldLeft(Poll, begun, polls)
                   IN IF last.end = "polling" THEN [last EXCEPT !.end = "configuration error"] ELSE last

\* (mutant of AnswerOf) only the dev answer says that nothing came.
AnswerOf_Blank(out, end, allowDev) ==
  IF end = "done" THEN out ELSE Append(out, IF allowDev THEN "dev" ELSE "")

\* What the turn makes of the end: the dev answer stands in for a provider that
\* is not configured, if it is allowed; an error becomes text of the answer.
AnswerOf(out, end, allowDev) ==
  IF end = "done" THEN out
  ELSE IF end = "configuration error" /\ allowDev THEN Append(out, "dev")
  ELSE Append(out, "error")
=============================================================================
