------------------------------- MODULE Intake -------------------------------
(* What an upload goes through before a user sees it: the CSV connector, the   *)
(* profiler and the mapping suggester, as functions of the file and of the     *)
(* model's reply. Code: services/ingestion/app/connectors, profiling, mapping. *)
(* A header is a sequence of one-character strings. A column's cells are       *)
(* counted, not listed: how many are empty, distinct, dates, numbers.          *)
EXTENDS Values, Integers, Sequences, SequencesExt, FiniteSetsExt, TLC

CONSTANT Domains

Lower == ("A" :> "a") @@ ("B" :> "b")
Separators == {" ", "-", "_"}
Alnum == {"a", "b", "A", "B", "1", "2", "i", "d", "r", "e", "f", "t", "m"}

(* _clean_column_name: lower case, separators to underscores, other signs      *)
(* dropped, runs of underscores collapsed, the outer ones stripped.            *)
Underscored(name) ==
  LET kept == SelectSeq(name, LAMBDA ch : ch \in Alnum \cup Separators)
  IN  [i \in DOMAIN kept |-> IF kept[i] \in Separators THEN "_"
                             ELSE IF kept[i] \in DOMAIN Lower THEN Lower[kept[i]] ELSE kept[i]]
CleanColumnName(name) ==
  LET u == Underscored(name)
      collapsed == FoldLeft(LAMBDA acc, ch :
        IF ch = "_" /\ (acc = <<>> \/ Last(acc) = "_") THEN acc ELSE Append(acc, ch), <<>>, u)
  IN  IF collapsed # <<>> /\ Last(collapsed) = "_" THEN Front(collapsed) ELSE collapsed

(* _drop_dead_columns: at least 99 empty cells in a hundred. Looking a column  *)
(* up by a name two columns share yields both, and the comparison raises.      *)
Dead(c) == 100 * c.empty >= 99 * c.rows
DropDeadColumns(cols) ==
  IF ~IsInjective([i \in DOMAIN cols |-> cols[i].name]) THEN Fails
  ELSE SelectSeq(cols, LAMBDA c : ~Dead(c))

Digit(n) == <<"1", "2">>[n]

(* _dedupe_columns: the n-th repeat of a name gets the suffix _n. *)
DedupeColumns(cols) ==
  LET Renamed(c, before) == IF before = 0 THEN c ELSE [c EXCEPT !.name = @ \o <<"_", Digit(before)>>]
  IN  [i \in DOMAIN cols |->
         Renamed(cols[i], Cardinality({j \in 1..i - 1 : cols[j].name = cols[i].name}))]

(* read_dataframe: a file that is missing, empty or does not parse raises; so  *)
(* does one without rows or columns.                                           *)
ReadDataframe(file) ==
  LET NormalizeColumns == [i \in DOMAIN file.columns |->
                             [file.columns[i] EXCEPT !.name = CleanColumnName(@)]]
      Kept(live) == IF live = Fails THEN Fails ELSE DedupeColumns(live)
  IN  IF ~file.parses \/ file.columns = <<>> THEN Fails
      ELSE Kept(DropDeadColumns(NormalizeColumns))

(* _infer_logical_type: the type pandas gave, then dates by name and by four   *)
(* cells in five, then numbers by nine cells in ten, else text. An all-empty   *)
(* column has no type to infer.                                                *)
InferLogicalType(c) ==
  LET filled == c.rows - c.empty
      Is(t, numeric, datetime) == [type |-> t, numeric |-> numeric, datetime |-> datetime]
  IN  IF filled = 0 THEN Is("empty", FALSE, FALSE)
      ELSE IF c.dtype = "bool" THEN Is("boolean", FALSE, FALSE)
      ELSE IF c.dtype # "object" THEN Is(c.dtype, TRUE, FALSE)
      ELSE IF c.hinted /\ 5 * c.dates >= 4 * filled THEN Is("datetime", FALSE, TRUE)
      ELSE IF 10 * c.numbers >= 9 * filled
             THEN Is(IF c.whole THEN "integer" ELSE "float", TRUE, FALSE)
      ELSE Is("string", FALSE, FALSE)

(* _is_identifier: by the end of its name, or 95 distinct values in a hundred. *)
IsIdentifier(c) ==
  \/ IsSuffix(<<"_", "i", "d">>, c.name) \/ c.name = <<"i", "d">>
  \/ IsSuffix(<<"_", "r", "e", "f">>, c.name)
  \/ c.rows # 0 /\ 100 * c.distinct >= 95 * c.rows

(* profile_dataframe: one profile per column, in the order of the file. *)
ProfileDataframe(cols) ==
  [i \in DOMAIN cols |->
     InferLogicalType(cols[i]) @@ [name |-> cols[i].name, keyword |-> cols[i].keyword,
                                   identifier |-> IsIdentifier(cols[i])]]

(* Mutant: a numeric column that matches no domain is skipped. *)
SkipUnmatched(p) ==
  LET Suggest(domain, role, hundredths) ==
        [column |-> p.name, domain |-> domain, role |-> role,
         confidence |-> hundredths, source |-> "keyword"]
  IN  IF p.identifier THEN Suggest(p.keyword, "entity", 50)
      ELSE IF p.keyword # None THEN Suggest(p.keyword, "metric", 60)
      ELSE Suggest(None, "skip", 20)

(* _keyword_suggestion: identifiers are entities; a column whose name matches  *)
(* a domain, or whose values are numbers, is a metric; anything else skipped.  *)
KeywordSuggestion(p) ==
  LET Suggest(domain, role, hundredths) ==
        [column |-> p.name, domain |-> domain, role |-> role, confidence |-> hundredths,
         source |-> IF domain = None /\ role # "entity" THEN "none" ELSE "keyword"]
  IN  IF p.identifier THEN Suggest(p.keyword, "entity", IF p.keyword # None THEN 50 ELSE 30)
      ELSE IF p.keyword # None THEN Suggest(p.keyword, "metric", IF p.numeric THEN 60 ELSE 40)
      ELSE IF p.numeric THEN Suggest(None, "metric", 30)
      ELSE Suggest(None, "skip", 20)

Roles == {"metric", "entity", "skip"}
(* _parse_llm_response, one entry: unknown names are passed over, unknown      *)
(* domains and roles replaced, the confidence clamped; a nested value where a  *)
(* name or a domain is looked up raises, being unhashable.                     *)
Clamp(n) == IF n < 0 THEN 0 ELSE IF n > 100 THEN 100 ELSE n
FromModel(item) ==
  [column |-> item.column, domain |-> IF item.domain \in Domains THEN item.domain ELSE None,
   role |-> IF item.role \in Roles THEN item.role ELSE "skip",
   confidence |-> Clamp(item.confidence), source |-> "llm"]

ParseReply(items, profiles) ==
  LET names == {profiles[i].name : i \in DOMAIN profiles}
      entries == SelectSeq(items, LAMBDA it : it # Nested)
      known == SelectSeq(entries, LAMBDA it : it.column \in names)
      suggested == {known[i].column : i \in DOMAIN known}
      rest == SelectSeq(profiles, LAMBDA p : p.name \notin suggested)
  IN  IF \E i \in DOMAIN entries :
           \/ entries[i].column = Nested
           \/ entries[i].column \in names /\ entries[i].domain = Nested
      THEN Fails
      ELSE [i \in DOMAIN known |-> FromModel(known[i])]
           \o [i \in DOMAIN rest |-> KeywordSuggestion(rest[i])]

(* suggest_mappings: without a usable reply (model disabled or unreachable, no *)
(* JSON object, no list of suggestions) every column goes by its keywords.     *)
SuggestMappings(profiles, reply) ==
  IF reply = None THEN [i \in DOMAIN profiles |-> KeywordSuggestion(profiles[i])]
  ELSE ParseReply(reply, profiles)

(* start_onboarding's answer: each column of the file once, with the last of    *)
(* the suggestions made for it.                                                 *)
Enriched(profiles, suggestions) ==
  IF suggestions = Fails THEN Fails
  ELSE [i \in DOMAIN profiles |->
          Last(SelectSeq(suggestions, LAMBDA s : s.column = profiles[i].name))]

TakeIn(file, reply) ==
  LET Proposed(profiles) == Enriched(profiles, SuggestMappings(profiles, reply))
      Answered(cols) == IF cols = Fails THEN Fails ELSE Proposed(ProfileDataframe(cols))
  IN  Answered(ReadDataframe(file))

-----------------------------------------------------------------------------
(* Words of a header, the reference of CleanColumnName: its runs of letters    *)
(* and digits, other signs ignored, joined by single underscores.              *)
WordsJoined(clean, name) ==
  LET kept == SelectSeq(name, LAMBDA ch : ch \in Alnum \cup Separators)
      letters(s) == SelectSeq(s, LAMBDA ch : ch \notin Separators)
      breaks == {i \in DOMAIN kept : kept[i] \notin Separators /\ i > 1 /\ kept[i-1] \in Separators
                                     /\ \E j \in 1..i-1 : kept[j] \notin Separators}
      inner == {i \in DOMAIN clean : clean[i] = "_"}
  IN  /\ letters(clean) = letters([i \in DOMAIN kept |->
           IF kept[i] \in DOMAIN Lower THEN Lower[kept[i]] ELSE kept[i]])
      /\ Cardinality(inner) = Cardinality(breaks)
      /\ \A i \in inner : i \notin {1, Len(clean)} /\ clean[i + 1] # "_"

Names(cols) == [i \in DOMAIN cols |-> cols[i].name]

(* A file is read with clean, distinct column names and no dead column, or it  *)
(* is refused: what the connector hands on can be mapped by name               *)
(* (csv_connector.read_dataframe).                                             *)
ReadsDistinctColumns(file) ==
  LET Distinct(cols) ==
        cols # Fails =>
          /\ IsInjective(Names(cols))
          /\ \A i \in DOMAIN cols : ~Dead(cols[i]) /\ CleanColumnName(cols[i].name) = cols[i].name
  IN  /\ \A i \in DOMAIN file.columns :
           WordsJoined(CleanColumnName(file.columns[i].name), file.columns[i].name)
      /\ Distinct(ReadDataframe(file))

(* Whatever the model replies, and however often it names a column, an upload  *)
(* that is answered proposes exactly one thing for each column, in the order   *)
(* of the file, of a known role and domain, with a confidence in range; the    *)
(* model's own where it named the column, even in the worst of words; and a    *)
(* column of numbers is skipped only when the model said so                    *)
(* (suggester.suggest_mappings, pipeline.start_onboarding).                    *)
ProposesEveryColumn(file, reply) ==
  LET Proposes(out, cols) ==
        out # Fails =>
          /\ [i \in DOMAIN out |-> out[i].column] = [i \in DOMAIN cols |-> cols[i].name]
          /\ \A i \in DOMAIN out :
               /\ out[i].source = "llm" <=> reply # None /\ \E k \in DOMAIN reply :
                                          reply[k] # Nested /\ reply[k].column = out[i].column
               /\ out[i].domain \in Domains \cup {None} /\ out[i].role \in Roles
               /\ out[i].confidence \in 0..100
               /\ out[i].role = "skip" /\ out[i].source # "llm" =>
                    \A j \in DOMAIN cols : cols[j].name = out[i].column =>
                      ~InferLogicalType(cols[j]).numeric
  IN  Proposes(TakeIn(file, reply), ReadDataframe(file))
=============================================================================
