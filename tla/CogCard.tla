------------------------------- MODULE CogCard ------------------------------
(***************************************************************************)
(* Reading one Cog: the COG.md frontmatter within its YAML subset          *)
(* (cogs/frontmatter.py), the profile its manifest pointer names           *)
(* (cogs/profile.py), the card (cogs/bundle.py), and the row the indexer   *)
(* stores for the artifact (indexer._read_artifact).                       *)
(*                                                                         *)
(* Pure functions of one input: a document, as the classes of its lines,   *)
(* or an artifact, as its layers with what reading each of them gives.     *)
(***************************************************************************)
EXTENDS Integers, Sequences, FiniteSets, SequencesExt

CONSTANTS
  Documents,   \* sequences of lines [is, key, value, indent]
  Artifacts,   \* records: see ReadArtifact
  LifecycleTasks

VARIABLES input, outcome
cardVars == <<input, outcome>>

---------------------------------------------------------------------------
(* The document.  is: "fence", "blank", "comment", "key", "item" ("- x"),    *)
(* "pair" (indented "k: v"), "text" (other indented), "junk" (or any tab).   *)
(* value: "empty", "string", "plain" (a number, date, bool), "flow", "bad". *)

Refused == [ok |-> FALSE, fields |-> <<>>]
Empty == [ok |-> TRUE, fields |-> <<>>]
Null == [form |-> "null", string |-> FALSE]
Skipped(line) == line.is \in {"blank", "comment"}
Indented(line) == line.is \in {"item", "pair", "text"}

\* The indented lines that follow line i, blanks and comments aside.
BlockEnd(lines, i) ==
  LET tops == {j \in (i + 1)..Len(lines) : ~Skipped(lines[j]) /\ ~Indented(lines[j])}
  IN IF tops = {} THEN Len(lines) + 1 ELSE CHOOSE j \in tops : \A k \in tops : j <= k
Block(lines, i) == SelectSeq(SubSeq(lines, i + 1, BlockEnd(lines, i) - 1), LAMBDA l : ~Skipped(l))

SameIndent(block) == \A j \in DOMAIN block : block[j].indent = block[1].indent
Scalar(line) == line.value \in {"string", "plain"}

\* _parse_block_list, _parse_metadata_block
BlockValue(key, block) ==
  IF \A j \in DOMAIN block : block[j].is = "item"
  THEN [ok |-> SameIndent(block) /\ \A j \in DOMAIN block : Scalar(block[j]), value |-> [form |-> "list", string |-> FALSE]]
  ELSE [ok |-> /\ key = "metadata" /\ SameIndent(block)
               /\ \A j \in DOMAIN block : block[j].is = "pair" /\ Scalar(block[j])
               /\ \A j, k \in DOMAIN block : block[j].key = block[k].key => j = k,
        value |-> [form |-> "map", string |-> \A j \in DOMAIN block : block[j].value = "string"]]

InlineValue(line) ==
  CASE line.value = "empty" -> [ok |-> TRUE, value |-> Null]
    [] line.value = "flow"  -> [ok |-> TRUE, value |-> [form |-> "list", string |-> FALSE]]
    [] OTHER -> [ok |-> Scalar(line), value |-> [form |-> "scalar", string |-> line.value = "string"]]

HasBlockAnyway(lines, i) == Block(lines, i) # <<>>
HasBlock(lines, i) == lines[i].value = "empty" /\ Block(lines, i) # <<>>

\* _parse_frontmatter: from line i to the end.
ParseFrontmatter(lines) ==
  LET parse[i \in 1..(Len(lines) + 1)] ==
        IF i = Len(lines) + 1 THEN Empty
        ELSE IF Skipped(lines[i]) THEN parse[i + 1]
        ELSE IF lines[i].is # "key" THEN Refused
        ELSE LET nested == HasBlock(lines, i)
                 read == IF nested THEN BlockValue(lines[i].key, Block(lines, i)) ELSE InlineValue(lines[i])
                 rest == parse[IF nested THEN BlockEnd(lines, i) ELSE i + 1]
             IN IF ~read.ok \/ ~rest.ok \/ lines[i].key \in DOMAIN rest.fields THEN Refused
                ELSE [ok |-> TRUE, fields |-> [k \in DOMAIN rest.fields \cup {lines[i].key} |->
                                                 IF k = lines[i].key THEN read.value ELSE rest.fields[k]]]
  IN parse[1]

\* _split_document, read_cog_document
Fences(lines) == {i \in 2..Len(lines) : lines[i].is = "fence"}
FirstFence(lines) == CHOOSE i \in Fences(lines) : \A j \in Fences(lines) : i <= j
FrontmatterOf(lines) == SubSeq(lines, 2, FirstFence(lines) - 1)

ReadCogDocument(lines) ==
  IF lines = <<>> \/ lines[1].is # "fence" \/ Fences(lines) = {} THEN Refused
  ELSE IF \A j \in DOMAIN FrontmatterOf(lines) : FrontmatterOf(lines)[j].is = "blank" THEN Refused
  ELSE ParseFrontmatter(FrontmatterOf(lines))

---------------------------------------------------------------------------
(* The profile.  front: [parsed, manifest, schema]; manifest is "absent",   *)
(* "unusable" (not a string, empty, absolute, escaping) or a title; schema  *)
(* is "absent", "unusable", "unknown" or "known".  files: title -> content, *)
(* "binary", "broken", "empty" or "good".                                   *)

PointerErrorsForPath(front) == IF front.manifest = "unusable" THEN {"manifest"} ELSE {}
PointerErrors(front) ==
  IF front.manifest = "absent" /\ front.schema = "absent" THEN {}
  ELSE (IF front.manifest \in {"absent", "unusable"} THEN {"manifest"} ELSE {})
         \cup (IF front.schema \in {"absent", "unusable"} THEN {"schema"} ELSE {})

Usable(front) == front.manifest \notin {"absent", "unusable"}
NoProfile == [status |-> "unparsed", errors |-> {}, warnings |-> {}]

\* load_profile
LoadProfile(front, files) ==
  LET content == files[front.manifest]
      toml == front.manifest \in {"pixi.toml", "cog.toml"}
      yaml == front.manifest = "cog.yaml"
  IN CASE ~front.parsed -> NoProfile
       [] front.parsed /\ front.manifest = "absent" /\ front.schema = "absent" -> [NoProfile EXCEPT !.status = "draft"]
       [] front.parsed /\ ~Usable(front) /\ ~(front.manifest = "absent" /\ front.schema = "absent") ->
            [NoProfile EXCEPT !.status = "missing"]
       [] front.parsed /\ Usable(front) /\ front.manifest \notin DOMAIN files ->
            [NoProfile EXCEPT !.status = "missing", !.errors = {"not in the bundle"}]
       [] OTHER ->
            IF content = "binary" THEN [NoProfile EXCEPT !.errors = {"utf-8"}]
            ELSE IF front.schema \in {"absent", "unusable"} THEN NoProfile
            ELSE IF front.schema = "unknown" THEN [NoProfile EXCEPT !.warnings = {"schema"}]
            ELSE IF ~toml /\ ~yaml THEN [NoProfile EXCEPT !.errors = {"neither TOML nor YAML"}]
            ELSE IF content # "good" THEN [NoProfile EXCEPT !.errors = {content}]
            ELSE [NoProfile EXCEPT !.status = "parsed"]

\* derive_card_fields: which tasks are for use, and which run the Cog itself.
\* interfaces: records [task, endpoint, audience].
Said(i) == IF i.endpoint THEN "lifecycle" ELSE IF i.audience # "unsaid" THEN i.audience
           ELSE IF i.task \in LifecycleTasks THEN "lifecycle" ELSE "usage"
DeriveOps(interfaces, tasks) ==
  LET named == {i.task : i \in interfaces}
      by(audience) == {i.task : i \in {x \in interfaces : Said(x) = audience}}
      rest == tasks \ named
  IN [usage |-> by("usage") \cup (rest \ LifecycleTasks),
      lifecycle |-> by("lifecycle") \cup (rest \cap LifecycleTasks),
      inferred |-> rest # {} \/ \E i \in interfaces : ~i.endpoint /\ i.audience = "unsaid"]

---------------------------------------------------------------------------
(* The row.  artifact: [layers: titles with their content, lock: titles     *)
(* whose media type is the lockfile's, front, doc_errors, prog: what        *)
(* pixi.toml says of a capability ("none", "empty", "one"), interfaces,     *)
(* tasks, storable].                                                        *)

BundleLayer(a, title) == title \in DOMAIN a.layers /\ title \notin a.lock

\* select_bundle_layers: never the lockfile, by title or by media type.
SelectBundleLayers(a, titles) == {t \in titles : t # "pixi.lock" /\ BundleLayer(a, t)}

\* _fetch_cog_files: COG.md, then what it points to and pixi.toml.
Fetched(a) ==
  SelectBundleLayers(a, {"pixi.toml"} \cup (IF Usable(a.front) /\ a.front.parsed THEN {a.front.manifest} ELSE {}))

Row(status, errors, card) == [status |-> status, errors |-> errors, card |-> card]
NoCard == [status |-> "missing", errors |-> {}, warnings |-> {}, ops |-> DeriveOps({}, {})]

Indexed(a, card) ==
  IF a.storable THEN Row("indexed", card.errors, card) ELSE Row("failed", {"card"} \cup card.errors, NoCard)

ReadCog(a) ==
  LET files == [t \in Fetched(a) |-> a.layers[t]]
      profile == LoadProfile(a.front, files)
      errors == IF a.front.parsed THEN a.docErrors \cup PointerErrors(a.front) ELSE {"frontmatter"}
  IN [status |-> profile.status, errors |-> errors \cup profile.errors, warnings |-> profile.warnings,
      ops |-> IF profile.status = "parsed" THEN DeriveOps(a.interfaces, a.tasks) ELSE DeriveOps({}, {})]

\* _read_prog: a capability that pixi.toml declares makes a Prog.
ReadProg(a) ==
  IF a.layers["pixi.toml"] # "good" \/ a.prog = "none" THEN [NoCard EXCEPT !.errors = {"no capability"}]
  ELSE IF a.prog = "empty" THEN [NoCard EXCEPT !.errors = {"no table"}]
  ELSE [NoCard EXCEPT !.status = "parsed", !.ops = [usage |-> a.tasks, lifecycle |-> {}, inferred |-> FALSE]]

ReadWithoutEntry(a) ==
  IF ~BundleLayer(a, "pixi.toml") THEN Row("non_cog", {"no layer"}, NoCard)
  ELSE IF ReadProg(a).status = "parsed" THEN Indexed(a, ReadProg(a))
  ELSE Row("non_cog", ReadProg(a).errors, NoCard)

ReadArtifact(a) ==
  IF a.fetchFails THEN Row("failed", {"fetch"}, NoCard)
  ELSE IF BundleLayer(a, "COG.md") THEN Indexed(a, ReadCog(a)) ELSE ReadWithoutEntry(a)

---------------------------------------------------------------------------
NotRead == [of |-> "nothing"]

CardInit ==
  /\ outcome = NotRead
  /\ \/ \E d \in Documents : input = [of |-> "document", lines |-> d]
     \/ \E a \in Artifacts : input = [of |-> "artifact", artifact |-> a]

ReadDocument ==
  /\ input.of = "document" /\ outcome = NotRead
  /\ outcome' = [of |-> "document", doc |-> ReadCogDocument(input.lines)]
  /\ UNCHANGED input

ReadRow ==
  /\ input.of = "artifact" /\ outcome = NotRead
  /\ outcome' = [of |-> "artifact", row |-> ReadArtifact(input.artifact)]
  /\ UNCHANGED input

CardNext == ReadDocument \/ ReadRow
CardSpec == CardInit /\ [][CardNext]_cardVars

---------------------------------------------------------------------------
(* Properties *)

\* The subset, as the module's header gives it: distinct keys, each with its
\* value on its line or, if it has none there, one list or the metadata below.
Owner(lines, j) ==
  LET tops == {i \in 1..(j - 1) : ~Skipped(lines[i]) /\ ~Indented(lines[i])}
  IN IF tops = {} THEN 0 ELSE CHOOSE i \in tops : \A k \in tops : k <= i
Owned(lines, i) == {j \in DOMAIN lines : Indented(lines[j]) /\ Owner(lines, j) = i}
InSubset(lines) ==
  /\ \A i \in DOMAIN lines : lines[i].is \in {"blank", "comment", "key", "item", "pair"}
  /\ \A i, j \in DOMAIN lines : lines[i].is = "key" /\ lines[j].is = "key" /\ lines[i].key = lines[j].key => i = j
  /\ \A j \in DOMAIN lines : Indented(lines[j]) =>
       Owner(lines, j) # 0 /\ lines[Owner(lines, j)].value = "empty" /\ Scalar(lines[j])
  /\ \A i \in DOMAIN lines : lines[i].is = "key" =>
       /\ lines[i].value # "bad"
       /\ \A j, k \in Owned(lines, i) : lines[j].indent = lines[k].indent /\ lines[j].is = lines[k].is
       /\ \A j, k \in Owned(lines, i) : lines[j].is = "pair" => lines[i].key = "metadata" /\ (lines[j].key = lines[k].key => j = k)

\* The reader fails closed (frontmatter.py): it accepts exactly the documents of
\* the subset, and loses or invents no field of one.
FailsClosed ==
  outcome.of = "document" =>
    LET lines == input.lines
        closed == lines # <<>> /\ lines[1].is = "fence" /\ Fences(lines) # {}
        block == FrontmatterOf(lines)
    IN /\ outcome.doc.ok <=> closed /\ InSubset(block) /\ \E i \in DOMAIN block : block[i].is # "blank"
       /\ outcome.doc.ok => DOMAIN outcome.doc.fields = {block[i].key : i \in {j \in DOMAIN block : block[j].is = "key"}}

\* A row never keeps quiet: without a card, or with a profile that is neither
\* parsed nor a draft, it says why (load_profile relies on the frontmatter
\* reader having said it); a profile whose file is a layer of the bundle is not
\* called missing; and each task of a parsed one is somewhere in its ops.
NeverSilent ==
  outcome.of = "artifact" =>
    LET row == outcome.row  a == input.artifact
    IN /\ row.status # "indexed" => row.errors # {}
       /\ row.status = "indexed" /\ row.card.status \notin {"parsed", "draft"} => row.card.errors \cup row.card.warnings # {}
       /\ row.status = "indexed" /\ row.card.status = "missing" =>
            ~a.front.parsed \/ ~Usable(a.front) \/ a.front.manifest = "pixi.lock" \/ ~BundleLayer(a, a.front.manifest)
       /\ row.card.status = "parsed" => a.tasks \subseteq row.card.ops.usage \cup row.card.ops.lifecycle
=============================================================================
