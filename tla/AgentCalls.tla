----------------------------- MODULE AgentCalls -----------------------------
(* From the model's reply to a tool that runs: reading the reply, checking the  *)
(* call, the tools a question brings, and the evidence the loop counts. Code:   *)
(* services/agent/llm.py, tools/base.py, tools/selector.py, agent.py, graph.py. *)
(* A value has a kind: "text" that says "null", "whole", "fraction",            *)
(* "infinite" or "word"; or "int", "float", "bool"; or None or Nested.          *)
EXTENDS Values, Integers, Sequences, SequencesExt, FiniteSetsExt, TLC

CONSTANTS Groups,       \* tool group -> the names of its tools
          IntentWords,  \* tool group -> the words that bring it
          CausalWords,  \* the words that make a question causal (selector.py)
          CausalQuestionWords, \* the same list as graph.py has it
          Tools         \* tool -> its parameters: name -> [kind, required]

(* The two lists hold the same words, and the groups that are always offered or   *)
(* that a causal question is given exist (_ALWAYS, _CAUSAL_COMPANIONS, _GROUPS).   *)
ASSUME AgentCallsAssumption ==
  /\ CausalQuestionWords \subseteq CausalWords
  /\ {"hub", "analytics", "ml", "intelligence"} \subseteq DOMAIN Groups

Text(says) == [kind |-> "text", says |-> says]
Kinds == {"int", "float", "str", "bool"}

(* ------------------------------- the reply ---------------------------------- *)

(* _extract_native_tool_calls: entries without a name are passed over; arguments *)
(* that are not an object, or text that is not JSON, become none. An entry that  *)
(* is not an object has no fields to ask for, and raises.                        *)
NativeCalls(entries) ==
  LET named == SelectSeq(entries, LAMBDA e : e # None /\ e.name # None)
  IN  IF Nested \in ToSet(entries) THEN Fails
      ELSE [i \in DOMAIN named |->
              [tool |-> named[i].name,
               arguments |-> IF named[i].arguments = Nested THEN <<>> ELSE named[i].arguments]]

(* _extract_embedded_tool_call: the first balanced object of the text, when it   *)
(* is JSON with a name; a list of arguments becomes none.                       *)
EmbeddedCall(block) ==
  IF block \in {None, Nested} THEN <<>>
  ELSE IF block.name = None THEN <<>>
  ELSE <<[tool |-> block.name, arguments |-> IF block.arguments = Nested THEN <<>> ELSE block.arguments]>>

(* _parse: the structured calls, else the one written into the text. *)
ReadReply(reply) ==
  LET native == NativeCalls(reply.calls)
  IN  IF native = Fails THEN Fails ELSE IF native # <<>> THEN native ELSE EmbeddedCall(reply.block)

(* ------------------------------- the call ----------------------------------- *)

(* _coerce_one, by the kind the parameter is annotated with. Text that is a      *)
(* number in form but infinite is not one an integer can be made of: the error   *)
(* is not among those caught. A bool under "str" becomes text; under "int" it is *)
(* left, and so is a fraction that is no text.                                   *)
CoerceOne(value, kind) ==
  LET text == value \notin {None, Nested} /\ value.kind = "text"
      numeric == text /\ value.says \in {"whole", "fraction", "infinite"}
  IN  IF value \in {None, Nested} THEN value
      ELSE IF text /\ value.says = "null" THEN None
      ELSE IF kind = "int" /\ numeric THEN IF value.says = "infinite" THEN Fails ELSE [kind |-> "int"]
      ELSE IF kind = "float" /\ numeric THEN [kind |-> "float"]
      ELSE IF kind = "str" /\ ~text THEN Text("word")
      ELSE value

(* _coerce_arguments: what the tool takes is kept and coerced, the rest dropped. *)
CoerceArguments(tool, arguments) ==
  LET kept == [p \in DOMAIN Tools[tool] \cap DOMAIN arguments |->
                 CoerceOne(arguments[p], Tools[tool][p].kind)]
  IN  IF \E p \in DOMAIN kept : kept[p] = Fails THEN Fails
      ELSE IF \E p \in DOMAIN Tools[tool] \ DOMAIN kept : Tools[tool][p].required THEN None
      ELSE kept

(* dispatch: an unknown tool, a missing argument, a tool that raises or returns  *)
(* something else are results that say so; "ran" holds what the tool was given.  *)
(* runs: how the tool takes it, "returns", "raises" or "other".                  *)
Dispatch(offered, call, runs) ==
  LET given == IF call.tool \in offered THEN CoerceArguments(call.tool, call.arguments) ELSE None
      Result(ok, ran) == [ok |-> ok, ran |-> ran]
  IN  IF given = Fails THEN Fails
      ELSE IF given = None THEN Result(FALSE, None)
      ELSE Result(runs = "returns", given)

(* --------------------------- the tools of a question ------------------------ *)

(* A question is a sequence of words, a word the sequence of the parts a hyphen  *)
(* joins. The selector asks for a whole word or for one of its parts.           *)
WordsAsked(question) ==
  ToSet(question) \cup UNION {{<<word[j]>> : j \in DOMAIN word} : word \in ToSet(question)}

(* select_tools: two groups always, more by the words; everything for a question *)
(* of three words or more that brings nothing. A word of the two groups that are *)
(* always there counts as bringing something.                                   *)
SelectTools(question) ==
  LET tokens == WordsAsked(question)
      meant == {g \in DOMAIN Groups : tokens \cap IntentWords[g] # {}}
      causal == tokens \cap CausalWords # {}
  IN  IF meant = {} /\ ~causal /\ Cardinality(tokens) >= 3 THEN DOMAIN Groups
      ELSE {"hub", "analytics"} \cup meant \cup (IF causal THEN {"ml", "intelligence"} ELSE {})

(* _tools_for: everything when the selection is switched off. *)
ToolsFor(question, selecting) ==
  UNION {Groups[g] : g \in IF selecting THEN SelectTools(question) ELSE DOMAIN Groups}

(* graph._is_causal splits words at their hyphens before it looks for them. *)
IsCausal(question) ==
  \E i \in DOMAIN question : \E j \in DOMAIN question[i] : <<question[i][j]>> \in CausalQuestionWords

-----------------------------------------------------------------------------
(* A reply never takes the loop down: whatever the model wrote, each call it      *)
(* holds ends in a result; a tool runs only with parameters it has, all the       *)
(* required ones among them, and no text stands for a number or for nothing. Two  *)
(* replies are excepted, for which the code does raise: a tool call that is not   *)
(* an object, and an infinite number for a whole one                              *)
(* (base.dispatch, llm.OllamaToolClient._parse).                                  *)
RepliesAreContained(in) ==
  LET calls == ReadReply(in.reply)
      offered == ToolsFor(in.question, in.selecting)
      Infinite(call) == \E p \in DOMAIN call.arguments :
        /\ call.tool \in offered /\ p \in DOMAIN Tools[call.tool]
        /\ Tools[call.tool][p].kind = "int" /\ call.arguments[p] = Text("infinite")
  IN  IF calls = Fails THEN Nested \in ToSet(in.reply.calls)
      ELSE \A k \in DOMAIN calls :
        LET out == Dispatch(offered, calls[k], in.runs)
        IN  IF out = Fails THEN Infinite(calls[k])
            ELSE /\ out.ok => out.ran # None
                 /\ out.ran # None =>
                      /\ calls[k].tool \in offered /\ DOMAIN out.ran \subseteq DOMAIN Tools[calls[k].tool]
                      /\ \A p \in DOMAIN Tools[calls[k].tool] :
                           Tools[calls[k].tool][p].required => p \in DOMAIN out.ran
                      /\ \A p \in DOMAIN out.ran :
                           /\ out.ran[p] # Text("null")
                           /\ Tools[calls[k].tool][p].kind = "int" =>
                                out.ran[p] \notin {Text("whole"), Text("fraction")}

(* A question the loop holds to the standard of a cause has the tools to meet it: *)
(* whatever graph._is_causal recognises, select_tools answers with the trends,    *)
(* the predictions and the cross-domain engine; and no question is left without   *)
(* the tools that find a dataset (selector.select_tools, graph._is_causal).       *)
CausalQuestionsGetTheirTools(in) ==
  LET offered == ToolsFor(in.question, in.selecting)
  IN  /\ Groups["hub"] \cup Groups["analytics"] \subseteq offered
      /\ IsCausal(in.question) => Groups["ml"] \cup Groups["intelligence"] \subseteq offered
=============================================================================
