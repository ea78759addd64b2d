------------------------------- MODULE SearchLoop -------------------------------
(***************************************************************************)
(* SearchExactIGAgentLoop.run for one trajectory: generate an action,      *)
(* parse it, search, insert the observation, until an answer, a malformed  *)
(* action, a failure or a budget ends it; and what TrajectoryRecord makes  *)
(* of the result.                                                          *)
(*                                                                         *)
(* A token is its source and turn; the positions of a sequence of tokens   *)
(* start at 1, so the end position of a prefix is its length, as in the    *)
(* code.  The two awaits of a turn are two steps: the model may generate   *)
(* any of Actions, the retriever may answer with any documents or raise.   *)
(***************************************************************************)
EXTENDS SearchAction, Ordering

CONSTANTS Actions,         \* the actions the model may generate
          Passages,        \* stable passage keys
          PromptLength,    \* tokens of the prompt
          ResponseLength,  \* response_length
          MaxSearchTurns, MaxNewTokens, MaxInformation,
          Localized        \* values of role_localized_gate_enabled

ASSUME LoopConstants ==
  /\ {PromptLength, ResponseLength, MaxNewTokens, MaxInformation} \subseteq Nat \ {0}
  /\ MaxSearchTurns \in Nat
  /\ Localized \subseteq BOOLEAN
  /\ IsFiniteSet(Passages)
  /\ \A a \in Actions : IsSample(a)

VARIABLES
  localized,    \* role_localized_gate_enabled
  pc,           \* "generate", "retrieve", "done" or "raised"
  turn,         \* turn_index
  tokens,       \* prompt_ids + response_ids with source and turn
  turns,        \* turn_records
  actions,      \* model_actions
  action,       \* the reading of the action whose search is under way
  searchCount,
  seenQueries,  \* seen_normalized_queries
  seenPassages, \* seen_passage_keys
  prefixEnds,   \* prefix_end_positions
  preEnds,      \* prefix_before_search_end_positions
  reason,       \* termination_reason
  systemValid

history == <<tokens, turns, actions, prefixEnds, preEnds>>
seen == <<searchCount, seenQueries, seenPassages>>
vars == <<localized, pc, turn, history, action, seen, reason, systemValid>>

NoAction == <<>>
Response == Len(tokens) - PromptLength
Token(source, t) == [source |-> source, turn |-> t]
Repeat(count, token) == [i \in 1..count |-> token]

(* The spans of the action that ends the sequence of tokens, by position.   *)
Shifted(S, base) == {base + i : i \in S \ NoThink}
Absolute(spans, base, size) ==
  [action |-> Shifted(1..size, base),
   think |-> IF spans.think = NoThink THEN NoThink ELSE Shifted(spans.think, base),
   decision |-> Shifted(spans.decision, base),
   query |-> Shifted(spans.query, base)]
NoSpans == [action |-> {}, think |-> NoThink, decision |-> {}, query |-> {}]

(* A TurnRecord with its defaults.                                          *)
Turn(kind) ==
  [index |-> turn, kind |-> kind, search |-> -1, text |-> <<>>,
   spanValid |-> FALSE, prefixValid |-> FALSE, ig |-> FALSE, credit |-> TRUE,
   noNew |-> "unknown", repeated |-> FALSE, different |-> FALSE,
   current |-> {}, new |-> {},
   localized |-> FALSE, executed |-> FALSE, budget |-> FALSE, invalid |-> FALSE,
   main |-> FALSE, branch |-> "none", before |-> {}, after |-> {},
   spans |-> NoSpans, observation |-> {}]

Init ==
  /\ localized \in Localized
  /\ pc = "generate" /\ turn = 0
  /\ tokens = Repeat(PromptLength, Token("prompt", -1))
  /\ turns = <<>> /\ actions = <<>> /\ action = NoAction
  /\ searchCount = 0 /\ seenQueries = {} /\ seenPassages = {}
  /\ prefixEnds = <<PromptLength>> /\ preEnds = <<>>
  /\ reason = "no_terminal_model_span" /\ systemValid = TRUE
-----------------------------------------------------------------------------
(* What run() finds in an action.                                           *)
NoRoles == [think |-> NoThink, decision |-> {}, query |-> {}]
Reading(a) ==
  LET text == Text(a)
      parsed == Parse(text)
      search == parsed.kind = "search" \/ SearchIntent(text)
      raises == search /\ RoleSpansRaise(a)
  IN  [sample |-> a, text |-> text, size |-> Len(a.tokens),
       kind |-> parsed.kind, search |-> search, raises |-> raises,
       spans |-> IF ~search THEN NoRoles
                 ELSE IF raises THEN InvalidRoleSpans(a) ELSE RoleSpans(a),
       payloadRaises |-> search /\ PayloadRaises(text),
       query |-> IF ~search THEN <<>>
                 ELSE NormalizedQuery(IF parsed.kind = "search" THEN parsed.value
                                      ELSE Payload(text)),
       payload |-> IF search THEN NormalizedQuery(Payload(text)) ELSE <<>>]
Readings == {Reading(a) : a \in Actions}

End(why) == pc' = "done" /\ reason' = why

ResponseExhausted ==
  /\ pc = "generate" /\ Response >= ResponseLength
  /\ End("response_length_exhausted")
  /\ UNCHANGED <<localized, turn, history, action, seen, systemValid>>

EmptyAction ==
  /\ pc = "generate" /\ Response < ResponseLength
  /\ End("empty_model_fallback")
  /\ UNCHANGED <<localized, turn, history, action, seen, systemValid>>

(* role_spans are built for a search and for anything that looks like one.  *)
WantsSpans(r) == localized /\ r.search
SpansOf(r) ==
  IF WantsSpans(r) THEN Absolute(r.spans, Len(tokens), r.size)
  ELSE NoSpans
ProtocolError(r) ==
  WantsSpans(r) /\ (r.raises \/ SpansOf(r).think = NoThink)

(* Defect: a search without a thought is an error whatever its spans.       *)
GenerationRaisesWithoutThought(r) ==
  /\ WantsSpans(r) /\ r.kind # "none"
  /\ r.raises \/ r.payloadRaises \/ r.spans.think = NoThink
(* What the parser accepts is never downgraded: what its spans or its       *)
(* payload raise leaves run().  The payload of an answer always raises, as  *)
(* the search it opens has no end.                                          *)
GenerationRaises(r) ==
  /\ WantsSpans(r) /\ r.kind # "none"
  /\ r.raises \/ r.payloadRaises

Sample(r) ==
  /\ tokens' = tokens \o Repeat(r.size, Token("model", turn))
  /\ actions' = Append(actions, r.text)

(* Search turns have an index, a pre-search prefix and a query that counts  *)
(* as seen from now on.                                                     *)
RecordQuery(query) ==
  /\ searchCount' = searchCount + 1
  /\ preEnds' = Append(preEnds, Len(tokens))
  /\ seenQueries' = IF query = <<>> THEN seenQueries ELSE seenQueries \cup {query}

(* An action the parser or the span builder rejects but that opens a search *)
MalformedSearch(r) ==
  LET query == r.payload
      spans == SpansOf(r)
  IN  /\ WantsSpans(r)
      /\ RecordQuery(query)
      /\ turns' = Append(turns,
           [Turn("search") EXCEPT
              !.search = searchCount, !.text = query,
              !.repeated = query # <<>> /\ query \in seenQueries,
              !.localized = TRUE, !.invalid = TRUE, !.branch = "n_invalid",
              !.before = seenPassages, !.after = seenPassages, !.spans = spans])
      /\ End("model_generated_malformed_search")

MalformedAction(r) ==
  /\ ~WantsSpans(r)
  /\ turns' = Append(turns, Turn("fallback"))
  /\ End("model_generated_malformed_fallback")
  /\ UNCHANGED <<searchCount, seenQueries, preEnds>>

Answer(r) ==
  /\ r.kind = "answer"
  /\ turns' = Append(turns, Turn("answer"))
  /\ End("model_answer")
  /\ UNCHANGED <<searchCount, seenQueries, preEnds>>

(* Defect: the search that exceeds the budget is not counted.               *)
BudgetExhaustedLate == searchCount > MaxSearchTurns
BudgetExhausted == searchCount + 1 > MaxSearchTurns

Search(r) ==
  LET query == r.query
  IN  /\ r.kind = "search"
      /\ RecordQuery(query)
      /\ IF BudgetExhausted
           THEN /\ turns' = Append(turns,
                     [Turn("search") EXCEPT
                        !.search = searchCount, !.text = query, !.spanValid = TRUE,
                        !.noNew = "none", !.repeated = query \in seenQueries,
                        !.different = query \notin seenQueries,
                        !.localized = localized, !.budget = localized,
                        !.branch = IF localized THEN "n_budget" ELSE "none",
                        !.before = IF localized THEN seenPassages ELSE {},
                        !.after = IF localized THEN seenPassages ELSE {},
                        !.spans = SpansOf(r)])
                /\ End("maximum_search_turns_reached")
                /\ UNCHANGED action
           ELSE /\ pc' = "retrieve" /\ action' = r
                /\ UNCHANGED <<turns, reason>>

Generate ==
  /\ pc = "generate" /\ Response < ResponseLength
  /\ \E r \in Readings :
       /\ r.size \in 1..Min({MaxNewTokens, ResponseLength - Response})
       /\ ~GenerationRaises(r)
       /\ Sample(r)
       /\ IF r.kind # "none" /\ ~ProtocolError(r)
            THEN \/ Answer(r) /\ UNCHANGED action
                 \/ Search(r)
            ELSE (MalformedSearch(r) \/ MalformedAction(r)) /\ UNCHANGED action
  /\ UNCHANGED <<localized, turn, seenPassages, prefixEnds, systemValid>>

GenerateRaises ==
  /\ pc = "generate" /\ Response < ResponseLength
  /\ \E r \in Readings :
       /\ r.size \in 1..Min({MaxNewTokens, ResponseLength - Response})
       /\ GenerationRaises(r)
       /\ action' = r
  /\ pc' = "raised"
  /\ UNCHANGED <<localized, turn, history, seen, reason, systemValid>>
-----------------------------------------------------------------------------
(* The retriever                                                            *)

PreEnd == preEnds[Len(preEnds)]
LastQuery == action.query
EarlierQueries == {turns[i].text : i \in DOMAIN turns}

(* Two protocol tags and one token per document, cut to the budget; a budget *)
(* below the tags raises before any passage is counted (RetrieverFails).     *)
InformationTokens(documents) ==
  Min({MaxInformation, 2 + Cardinality(documents)})

(* Defect: the budget is looked at before the observation is inserted.      *)
FitsBefore(documents) == Response < ResponseLength
Fits(documents) == Response + InformationTokens(documents) <= ResponseLength

(* Defect: the turn of the failed search alone loses its credit.            *)
WithdrawLast(records) ==
  [i \in DOMAIN records |->
     IF i = Len(records) THEN [records[i] EXCEPT !.credit = FALSE, !.ig = FALSE]
     ELSE records[i]]
WithdrawCredit(records) ==
  [i \in DOMAIN records |-> [records[i] EXCEPT !.credit = FALSE, !.ig = FALSE]]

(* An observation that does not fit is a failure of the system, found after *)
(* its passages were counted as seen.                                       *)
SearchFails(documents) ==
  /\ systemValid' = FALSE
  /\ seenPassages' = seenPassages \cup documents
  /\ turns' = WithdrawCredit(Append(turns,
       [Turn("search") EXCEPT !.search = searchCount - 1, !.text = LastQuery,
          !.spanValid = TRUE]))
  /\ End("retriever_system_failure")
  /\ UNCHANGED <<tokens, prefixEnds, turn>>

(* Defect: novelty is judged after the passages were counted as seen.       *)
NewPassagesAfterCommit(documents) == documents \ (seenPassages \cup documents)
(* compute_and_commit_passage_novelty                                       *)
NewPassages(documents) == documents \ seenPassages

Observe(documents) ==
  LET new == NewPassages(documents)
      size == InformationTokens(documents)
      base == PreEnd
      repeated == LastQuery \in EarlierQueries
  IN  /\ tokens' = tokens \o Repeat(size, Token("environment", -1))
      /\ prefixEnds' = Append(prefixEnds, Len(tokens'))
      /\ seenPassages' = seenPassages \cup documents
      /\ turns' = Append(turns,
           [Turn("search") EXCEPT
              !.search = searchCount - 1, !.text = LastQuery,
              !.spanValid = TRUE, !.prefixValid = TRUE, !.ig = TRUE,
              !.noNew = IF new = {} THEN "none" ELSE "some",
              !.repeated = repeated, !.different = new = {} /\ ~repeated,
              !.current = documents, !.new = new,
              !.localized = localized, !.executed = localized, !.main = localized,
              !.branch = IF ~localized THEN "none"
                         ELSE IF new = {} THEN "n_soft" ELSE "normal",
              !.before = IF localized THEN seenPassages ELSE {},
              !.after = IF localized THEN seenPassages' ELSE {},
              !.spans = IF localized
                          THEN Absolute(action.spans, base, action.size)
                          ELSE NoSpans,
              !.observation = IF localized THEN Len(tokens) + 1..Len(tokens') ELSE {}])
      /\ turn' = turn + 1
      /\ IF turn = MaxSearchTurns THEN pc' = "done" ELSE pc' = "generate"
      /\ UNCHANGED <<reason, systemValid>>

RetrieverAnswers ==
  /\ pc = "retrieve" /\ MaxInformation >= 2
  /\ \E documents \in SUBSET Passages :
       IF Fits(documents) THEN Observe(documents) ELSE SearchFails(documents)
  /\ action' = NoAction
  /\ UNCHANGED <<localized, actions, searchCount, seenQueries, preEnds>>

RetrieverFails ==
  /\ pc = "retrieve"
  /\ SearchFails({})
  /\ action' = NoAction
  /\ UNCHANGED <<localized, actions, searchCount, seenQueries, preEnds>>

-----------------------------------------------------------------------------
(* The record made of a finished loop: TrajectoryRecord and its validation. *)

ModelTokens(t) == {p \in DOMAIN tokens : tokens[p] = Token("model", t)}
SearchTurns == Subsequence(turns, {i \in DOMAIN turns : turns[i].kind = "search"})
(* Defect: only an answer ends a trajectory with credit.                    *)
TerminalAnswers == {i \in DOMAIN turns : turns[i].kind = "answer" /\ turns[i].credit}
Terminal == {i \in DOMAIN turns :
               /\ turns[i].kind # "search" /\ turns[i].credit
               /\ ModelTokens(turns[i].index) # {}}

(* policy_credit_mask, as a set of positions                                *)
PolicyCredit ==
  IF ~systemValid THEN {}
  ELSE UNION {ModelTokens(turns[i].index) :
                i \in {j \in DOMAIN turns :
                         /\ turns[j].credit
                         /\ \/ turns[j].kind = "search"
                            \/ Terminal # {} /\ j = Max(Terminal)}}

(* TurnRecord.validate                                                      *)
TurnValidates(r) ==
  /\ r.kind = "search" =>
       /\ r.search >= 0
       /\ r.ig = (r.spanValid /\ r.prefixValid /\ systemValid)
       /\ r.noNew = "some" => r.new # {}
       /\ r.noNew = "none" => r.new = {}
       /\ r.different => ~r.repeated /\ r.noNew = "none"
  /\ r.kind # "search" =>
       /\ r.search = -1 /\ ~r.spanValid /\ ~r.prefixValid /\ ~r.ig
       /\ r.noNew = "unknown" /\ ~r.repeated /\ ~r.different
       /\ r.current = {} /\ r.new = {}
  /\ r.credit => systemValid

(* TurnRecord.validate_role_localized_provenance                            *)
BranchFacts(r) ==
  CASE r.branch = "n_budget" ->
         r.budget /\ ~r.executed /\ ~r.invalid /\ ~r.main /\ r.noNew = "none"
    [] r.branch = "n_invalid" -> r.invalid /\ ~r.executed /\ ~r.main
    [] r.branch = "n_soft" ->
         r.executed /\ r.noNew = "none" /\ r.ig /\ r.credit /\ r.main
    [] r.branch = "normal" ->
         r.executed /\ r.noNew = "some" /\ r.ig /\ r.credit /\ r.main
    [] r.branch = "s_before" -> ~r.main
    [] OTHER -> FALSE

RoleValidates(r) ==
  LET think == r.spans.think \ NoThink
      decision == r.spans.decision
      query == r.spans.query
  IN  r.localized =>
        /\ r.kind = "search"
        /\ r.spans.think # {} /\ decision # {}
        /\ think # {} \/ r.branch = "n_invalid"
        /\ think \cup decision \cup query \subseteq r.spans.action
        /\ think \cap decision = {} /\ think \cap query = {}
        /\ decision \cap query = {}
        /\ r.spans.action # {} /\ r.spans.action \subseteq ModelTokens(r.index)
        /\ \A p \in r.observation :
             p \in DOMAIN tokens /\ tokens[p] = Token("environment", -1)
        /\ r.observation \cap PolicyCredit = {}
        /\ r.executed = (r.observation # {})
        /\ r.before \subseteq r.after /\ r.new = r.after \ r.before
        /\ BranchFacts(r)

(* is_budget_exhausted_terminal_search, for the search of turn i            *)
BudgetTerminal(i) ==
  LET r == turns[i]
      mine == ModelTokens(r.index)
  IN  /\ i = Len(turns) /\ r.kind = "search"
      /\ r.spanValid /\ ~r.prefixValid /\ ~r.ig /\ r.credit
      /\ r.noNew = "none" /\ r.current = {} /\ r.new = {}
      /\ r.search + 2 > Len(prefixEnds)
      /\ mine # {} /\ Min(mine) = preEnds[r.search + 1] + 1
      /\ Max(mine) = Len(tokens)

(* TrajectoryRecord.validate                                                *)
Ascending(s) == \A i \in 1..Len(s) - 1 : s[i] <= s[i + 1]
RecordValidates ==
  /\ \A i, j \in DOMAIN turns : i < j => turns[i].index < turns[j].index
  /\ \A i \in DOMAIN turns : TurnValidates(turns[i]) /\ RoleValidates(turns[i])
  /\ \A p \in DOMAIN tokens :
       IF tokens[p].source = "model"
         THEN \E i \in DOMAIN turns : turns[i].index = tokens[p].turn
         ELSE tokens[p].turn = -1
  /\ \A i \in DOMAIN SearchTurns : SearchTurns[i].search = i - 1
  /\ prefixEnds # <<>> /\ Ascending(prefixEnds)
  /\ \A i \in DOMAIN prefixEnds : prefixEnds[i] \in 1..Len(tokens)
  /\ Len(preEnds) = Len(SearchTurns) /\ Ascending(preEnds)
  /\ \A i \in DOMAIN SearchTurns :
       LET mine == ModelTokens(SearchTurns[i].index)
       IN  preEnds[i] > 0 /\ mine # {} /\ Min(mine) = preEnds[i] + 1
  /\ \A i, j \in DOMAIN SearchTurns :
       i < j /\ SearchTurns[j].prefixValid => SearchTurns[i].prefixValid
  /\ reason = "maximum_search_turns_reached" =>
       /\ SearchTurns # <<>>
       /\ {i \in DOMAIN turns : BudgetTerminal(i)} = {Len(turns)}
-----------------------------------------------------------------------------
Next == \/ ResponseExhausted \/ EmptyAction \/ Generate \/ GenerateRaises
        \/ RetrieverAnswers \/ RetrieverFails

Spec == Init /\ [][Next]_vars
-----------------------------------------------------------------------------
(* Properties                                                               *)

Endings == {"response_length_exhausted", "empty_model_fallback",
            "model_generated_malformed_search",
            "model_generated_malformed_fallback", "model_answer",
            "maximum_search_turns_reached", "retriever_system_failure"}

(* Types, and the bounds run() promises its caller: the response and every  *)
(* search stay within their budgets.                                        *)
TypeOK ==
  /\ pc \in {"generate", "retrieve", "done", "raised"}
  /\ localized \in BOOLEAN /\ systemValid \in BOOLEAN
  /\ turn \in 0..MaxSearchTurns /\ searchCount \in 0..MaxSearchTurns + 1
  /\ Response \in 0..ResponseLength
  /\ \A p \in DOMAIN tokens : tokens[p].source \in {"prompt", "model", "environment"}
  /\ seenPassages \subseteq Passages
  /\ reason \in Endings \cup {"no_terminal_model_span"}

(* The record of a loop that returned passes TrajectoryRecord.validate,     *)
(* which raises in the driver, long after the loop ended, and ends the      *)
(* attempt with it.  The code breaks this: with the gate on, a retriever    *)
(* that fails after a search was observed takes the credit of that search,  *)
(* which the facts of its branch still require.                             *)
RecordsValidate == pc = "done" => RecordValidates

(* Whatever the model writes and the retriever answers, the record passes   *)
(* validation in every other case: as long as the system does not fail, and *)
(* when it fails before any search of a gated trajectory was observed.      *)
OtherRecordsValidate ==
  pc = "done" /\ (systemValid \/ \A i \in DOMAIN turns : ~turns[i].executed)
    => RecordValidates

(* The loop always says why it ended, and its reason agrees with what the   *)
(* outcome scorer finds when it parses the same actions again; a trajectory *)
(* never searches more often than its budget.                               *)
EndIsExplained ==
  /\ pc = "done" =>
       /\ reason \in Endings
       /\ TerminalAnswer(actions) <=> reason = "model_answer"
       /\ systemValid <=> reason # "retriever_system_failure"
  /\ Cardinality({i \in DOMAIN turns : turns[i].prefixValid}) <= MaxSearchTurns

(* Every model token of a trajectory the system did not break earns policy  *)
(* credit, no token of the prompt or of an observation ever does, and one   *)
(* failure of the system takes the credit of all turns.                     *)
CreditIsTheModels ==
  pc = "done" =>
    PolicyCredit = IF systemValid
                     THEN {p \in DOMAIN tokens : tokens[p].source = "model"}
                     ELSE {}

(* The flags of a search say what the history before it says: passages are  *)
(* new when no earlier observation held them, a query is repeated when an   *)
(* earlier search asked it.                                                 *)
NoveltyMatchesHistory ==
  pc = "done" /\ systemValid =>
    \A i \in DOMAIN SearchTurns :
      LET r == SearchTurns[i]
          earlier == {SearchTurns[j] : j \in 1..i - 1}
      IN  /\ r.new = r.current \ UNION {e.current : e \in earlier}
          /\ r.prefixValid => (r.noNew = "none" <=> r.new = {})
          /\ r.repeated <=> r.text # <<>> /\ \E e \in earlier : e.text = r.text

(* Text of the model makes run() raise, and so ends the whole rollout, only *)
(* when an answer the parser accepts holds the opening tag of a search, or  *)
(* when a search it accepts nests a tag in its query, leaves no token to    *)
(* its query alone, or has tokens that do not decode reversibly.            *)
AbortsOnlyOnNesting ==
  pc = "raised" =>
    LET a == action.sample
        text == action.text
        inside == {text[i] : i \in Min(At(text, "S")) + 1..Max(At(text, "/S")) - 1}
    IN  /\ localized
        /\ \/ Parse(text).kind = "answer" /\ SearchIntent(text)
           \/ /\ Parse(text).kind = "search"
              /\ \/ inside \cap {"S", "/S", "T", "/T"} # {}
                 \/ RoleSpans(a).query = {}
                 \/ ~a.reversible
=============================================================================
