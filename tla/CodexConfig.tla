---------------------------- MODULE CodexConfig -----------------------------
(***************************************************************************)
(* How the gateway's settings are folded into an employee's config.toml    *)
(* (creds/codextoml.go), as operators on sequences of lines.  A line keeps *)
(* what the scanner looks at: its shape, its key or table, its value, and  *)
(* the brackets and triple quotes in it that stand outside one-line        *)
(* strings.  Whether such a line is a header, the continuation of a value  *)
(* above it or a statement depends on the lines before it.                 *)
(***************************************************************************)
EXTENDS Integers, Sequences, FiniteSets, FiniteSetsExt

Line(shape, name, value, tokens) == [shape |-> shape, name |-> name, value |-> value, tokens |-> tokens]
Blank == Line("blank", "", "", <<>>)
Comment == Line("comment", "", "", <<>>)
Setting(key, value) == Line("key", key, value, <<>>)
Header(table) == Line("header", table, "", <<"open", "close">>)
Opening(key, token) == Line("key", key, "", <<token>>)   \* key = [   or   key = """
Closing(token) == Line("text", "", "", <<token>>)        \* ]   or   """

codexManagedKeys == {"model", "model_provider", "model_catalog_json", "web_search", "stream_idle_timeout_ms"}
codexManagedTable == "model_providers.gateway"

\* The fragment a package delivers: one key stands for each group of keys
\* that are treated alike.
RenderGatewayConfig(model, token) ==
  << Setting("model", model), Setting("model_provider", "gateway"), Blank,
     Header(codexManagedTable), Setting("experimental_bearer_token", token) >>

-----------------------------------------------------------------------------
(* The scanner. *)

\* Inside which kind of string, and how many open brackets.
Fresh == [string |-> "none", depth |-> 0]

advanceToken(st, token) ==
  IF st.string # "none"
  THEN IF token = st.string THEN [st EXCEPT !.string = "none"] ELSE st
  ELSE IF token = "open" THEN [st EXCEPT !.depth = @ + 1]
  ELSE IF token = "close" THEN [st EXCEPT !.depth = IF @ > 0 THEN @ - 1 ELSE 0]
  ELSE [st EXCEPT !.string = token]

advanceTomlScanState(st, tokens) ==
  LET after[i \in 0 .. Len(tokens)] ==
        IF i = 0 THEN st ELSE advanceToken(after[i - 1], tokens[i])
  IN after[Len(tokens)]

\* What the scanner makes of a line: whether it is a header, the table above it,
\* the line its statement starts at, and the state after it.  With recovery,
\* what looks like a header is one even inside an open value.
Beginning == [table |-> "", start |-> 1, state |-> Fresh]
classifyLine(line, i, before, recoverUnterminated) ==
  LET fresh == before.state = Fresh
      header == line.shape = "header" /\ (fresh \/ recoverUnterminated)
  IN [line |-> line, isHeader |-> header,
      table |-> IF header THEN line.name ELSE before.table,
      start |-> IF header \/ fresh THEN i ELSE before.start,
      state |-> IF header THEN Fresh ELSE advanceTomlScanState(before.state, line.tokens)]

classifyTomlLines(lines, recoverUnterminated) ==
  LET scanned[i \in 1 .. Len(lines)] ==
        classifyLine(lines[i], i, IF i = 1 THEN Beginning ELSE scanned[i - 1], recoverUnterminated)
  IN SubSeq(scanned, 1, Len(lines))

\* Every value that is opened is closed.
Closed(lines) == lines = <<>> \/ classifyTomlLines(lines, FALSE)[Len(lines)].state = Fresh

\* One pass only.
SlipScan(lines) == classifyTomlLines(lines, FALSE)

\* A second pass recovers a file that never closes a value.
scanTomlLines(lines) == classifyTomlLines(lines, ~Closed(lines))

\* Line i is of the run of comments and blank lines that leads up to header h;
\* a blank line ends the run of the managed table.
LeadsTo(scan, i, h) ==
  /\ scan[h].isHeader
  /\ \A j \in i .. h - 1 :
       scan[j].line.shape \in {"comment"} \cup (IF scan[h].table = codexManagedTable THEN {} ELSE {"blank"})

\* The table whose section line i is in, "" for the root.
tomlSectionOwner(scan, i) ==
  LET ahead == {h \in i .. Len(scan) : LeadsTo(scan, i, h)}
  IN IF ahead = {} THEN scan[i].table ELSE scan[CHOOSE h \in ahead : TRUE].table

\* In any section.
SlipRootKey(scan, i, keys) ==
  /\ scan[i].line.shape = "key" /\ scan[i].line.name \in keys
  /\ ~scan[i].isHeader /\ scan[i].start = i

\* A statement at the root with one of these keys.
tomlRootKey(scan, i, keys) ==
  /\ scan[i].line.shape = "key" /\ scan[i].line.name \in keys
  /\ ~scan[i].isHeader /\ scan[i].start = i
  /\ tomlSectionOwner(scan, i) = ""

-----------------------------------------------------------------------------
(* The merge. *)

\* The lines at these places.
Select(lines, places) ==
  LET kept[i \in 0 .. Len(lines)] ==
        IF i = 0 THEN <<>>
        ELSE IF i \in places THEN Append(kept[i - 1], lines[i]) ELSE kept[i - 1]
  IN kept[Len(lines)]

\* The rest of a value goes where its first line goes.
stripCodexManaged(lines) ==
  LET scan == scanTomlLines(lines)
  IN Select(lines, {i \in 1 .. Len(lines) :
                     /\ tomlSectionOwner(scan, i) # codexManagedTable
                     /\ ~tomlRootKey(scan, scan[i].start, codexManagedKeys)})

RootLength(lines) ==
  LET scan == scanTomlLines(lines)
      InTable(i) == tomlSectionOwner(scan, i) # ""
  IN CHOOSE n \in 0 .. Len(lines) :
       /\ \A i \in 1 .. n : ~InTable(i)
       /\ n < Len(lines) => InTable(n + 1)
splitTomlRootAndTables(lines) ==
  LET n == RootLength(lines)
  IN [root |-> SubSeq(lines, 1, n), tables |-> SubSeq(lines, n + 1, Len(lines))]

trimBlankTomlLines(lines) ==
  LET text == {i \in DOMAIN lines : lines[i] # Blank}
  IN IF text = {} THEN <<>> ELSE SubSeq(lines, Min(text), Max(text))

\* Sections are separated by one blank line.
appendTomlSection(out, section) ==
  LET trimmed == trimBlankTomlLines(section)
  IN IF trimmed = <<>> THEN out
     ELSE IF out = <<>> THEN trimmed ELSE out \o <<Blank>> \o trimmed

\* The value of a root key if its first statement has a one-line string, else "".
rootStringValue(lines, key) ==
  LET scan == scanTomlLines(lines)
      at == {i \in DOMAIN scan : tomlRootKey(scan, i, {key})}
  IN IF at = {} THEN "" ELSE scan[Min(at)].line.value

setRootString(lines, key, value) ==
  LET scan == scanTomlLines(lines)
  IN [i \in DOMAIN lines |-> IF tomlRootKey(scan, i, {key}) THEN Setting(key, value) ELSE lines[i]]

mergeCodexConfigKeeping(existing, incoming, allowed) ==
  LET current == rootStringValue(existing, "model")
      delivered == splitTomlRootAndTables(IF current \in allowed \ {""} THEN setRootString(incoming, "model", current) ELSE incoming)
      kept == splitTomlRootAndTables(stripCodexManaged(existing))
      roots == appendTomlSection(appendTomlSection(<<>>, delivered.root), kept.root)
  IN IF trimBlankTomlLines(existing) = <<>> THEN incoming
     ELSE appendTomlSection(appendTomlSection(roots, delivered.tables), kept.tables)

\* The root keys alone.
SlipIdentity(lines) ==
  LET scan == scanTomlLines(lines)
  IN Select(lines, {i \in 1 .. Len(lines) : tomlRootKey(scan, i, {"model_provider"})})

\* Where Codex sends requests and with which token.
GatewayIdentity(lines) ==
  LET scan == scanTomlLines(lines)
  IN Select(lines, {i \in 1 .. Len(lines) :
       /\ scan[i].line.shape \notin {"blank", "comment"}
       /\ tomlSectionOwner(scan, i) = codexManagedTable \/ tomlRootKey(scan, i, {"model_provider"})})

-----------------------------------------------------------------------------
(* What TOML says a file means, for comparison: its statements, each with  *)
(* its table, its key and the lines of its value.                          *)

\* TOML read straight on: what is open after each line, and the table a key
\* would be in.
Reading(lines) ==
  LET after[i \in 0 .. Len(lines)] ==
        IF i = 0 THEN [state |-> Fresh, table |-> ""]
        ELSE LET before == after[i - 1]
             IN [state |-> advanceTomlScanState(before.state, lines[i].tokens),
                 table |-> IF before.state = Fresh /\ lines[i].shape = "header" THEN lines[i].name ELSE before.table]
  IN after

\* The lines that begin a statement; its value ends where nothing is open.
Statements(lines, read) ==
  {i \in DOMAIN lines : read[i - 1].state = Fresh /\ lines[i].shape \in {"header", "key"}}
Statement(lines, read, i) ==
  IF lines[i].shape = "header" THEN <<lines[i].name>>
  ELSE <<read[i].table, lines[i].name, SubSeq(lines, i, Min({j \in i .. Len(lines) : read[j].state = Fresh}))>>

Meaning(lines) == LET read == Reading(lines) IN {Statement(lines, read, i) : i \in Statements(lines, read)}

\* Every value ends, every line belongs to a statement, and no table and no key
\* is there twice.
IsToml(lines) ==
  LET read == Reading(lines)
      Alike(i, j) == /\ lines[i].shape = lines[j].shape /\ lines[i].name = lines[j].name
                     /\ lines[i].shape = "header" \/ read[i].table = read[j].table
  IN /\ read[Len(lines)].state = Fresh
     /\ \A i \in DOMAIN lines : read[i - 1].state = Fresh => lines[i].shape # "text"
     /\ \A i, j \in Statements(lines, read) : i < j => ~Alike(i, j)

\* What a merge must mean: the employee's statements without the managed ones,
\* and the fragment's, with the employee's model where the catalog has it.
MergedMeaning(existing, model, token, allowed) ==
  LET theirs == {s \in Meaning(existing) : /\ s[1] # codexManagedTable
                                           /\ Len(s) = 3 => ~(s[1] = "" /\ s[2] \in codexManagedKeys)}
      chosen == {m \in allowed \ {""} : <<"", "model", <<Setting("model", m)>>>> \in Meaning(existing)}
  IN theirs \cup Meaning(RenderGatewayConfig(IF chosen = {} THEN model ELSE CHOOSE m \in chosen : TRUE, token))
=============================================================================
