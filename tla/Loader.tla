------------------------------- MODULE Loader -------------------------------
(***************************************************************************)
(* Reading a module: the universe file names worlds, the entry file of a   *)
(* world includes and imports others, and each file that was found is      *)
(* given to the parsers of Mudl.  Everything of a world is read before the *)
(* next one is begun, and any error ends the process.                      *)
(*                                                                         *)
(* A file is <<directory, name>>; the directories are UniverseRoot, one    *)
(* per world, others, and Remote, where a name is looked up by a request.  *)
(***************************************************************************)
EXTENDS Roles, FiniteSets

CONSTANTS
    UniverseRoot, Remote,
    LinesMost   \* no file is longer

VARIABLES
    text,      \* the files there are, each its lines
    wanted,    \* MUDL_WORLD, or ""
    loading    \* load_universe: where it is, and what it has

loaderVars == <<text, wanted, loading>>

UniverseFile == <<UniverseRoot, "universe">>
EntryFile(world) == <<world, "world">>

\* LoadedWorld: what the parsers found, in the order of the files.
NoWorld == [blocks |-> [p \in Parsers |-> <<>>], places |-> <<>>, start |-> ""]

StartLoading ==
    [at |-> "universe", line |-> 1, world |-> "", stack |-> <<>>, visited |-> {},
     sources |-> <<>>, worlds |-> [w \in {} |-> NoWorld], chosen |-> NoWorld]

LoaderInit(texts, worlds) ==
    /\ text \in texts
    /\ wanted \in worlds
    /\ loading = StartLoading

\* parse_block_meta_fields: the first value up to the end of the block, the
\* last one written there.
Meta(lines, tag, key) ==
    FoldLeft(LAMBDA m, l :
               CASE m.ended -> m
                 [] l.tag = "end" -> [m EXCEPT !.ended = m.inside]
                 [] l.tag = "open" /\ l.key = tag -> [m EXCEPT !.inside = TRUE]
                 [] l.tag = "set" /\ l.key = key /\ m.inside -> [m EXCEPT !.value = l.value]
                 [] OTHER -> m,
             [inside |-> FALSE, ended |-> FALSE, value |-> ""], lines).value

(***************************************************************************)
(* What a world's files come to.                                           *)
(***************************************************************************)

\* parse_world_file.
Map(lines) == EndOfPlace(FoldLeft(PlaceLine, FreshMap, lines))
\* The other parsers.
Blocks(lines) == FileEnds(FoldLeft(FileLine, FreshFile, lines))

\* One file more: the last starting location that is given wins.
Merged(world, lines) ==
    [blocks |-> [p \in Parsers |-> world.blocks[p] \o Blocks(lines)[p]],
     places |-> world.places \o Map(lines).places,
     start |-> IF Map(lines).start # "" THEN Map(lines).start ELSE world.start]

ParsedWorld(w, sources) ==
    FoldLeft(LAMBDA world, file : Merged(world, text[file]),
             [NoWorld EXCEPT !.start = Meta(text[EntryFile(w)], "world", "starting_location")],
             sources)

Kind(world, p, kind) == SelectSeq(world.blocks[p], LAMBDA b : b.kind = kind)

(***************************************************************************)
(* Includes and imports.                                                   *)
(***************************************************************************)

\* @include is looked up in the directory of the world.  resolve_import: next
\* to a remote file everything is remote; next to a local one it may be
\* beside it, in the world or in the universe.
Candidates(l, base) ==
    CASE l.tag = "include" -> <<loading.world>>
      [] l.value = Remote \/ base[1] = Remote -> <<Remote>>
      [] OTHER -> <<base[1], loading.world, UniverseRoot>>
Found(l, base) ==
    LET there == {i \in DOMAIN Candidates(l, base) : <<Candidates(l, base)[i], l.key>> \in DOMAIN text} IN
      IF there = {} THEN Nothing
      ELSE <<Candidates(l, base)[CHOOSE i \in there : \A j \in there : i <= j], l.key>>

Fail == loading' = [loading EXCEPT !.at = "failed"]

\* load_universe goes on to its next @include-world.
IncludeWorld ==
    /\ loading.at = "universe" /\ loading.line <= Len(text[UniverseFile])
    /\ LET l == text[UniverseFile][loading.line] IN
         CASE l.tag # "include_world" -> loading' = [loading EXCEPT !.line = @ + 1]
           [] EntryFile(l.key) \notin DOMAIN text -> Fail
           [] OTHER -> loading' = [loading EXCEPT !.at = "expand", !.world = l.key,
                                     !.visited = {EntryFile(l.key)}, !.sources = <<>>,
                                     !.stack = <<[file |-> EntryFile(l.key), line |-> 1]>>]
    /\ UNCHANGED <<text, wanted>>

\* expand_sources and expand_from_content.  No file is ever taken out of
\* visited, so one that two others include counts as a circle.
Expand ==
    /\ loading.at = "expand" /\ loading.stack # <<>>
    /\ LET n == Len(loading.stack)
           top == loading.stack[n]
       IN IF top.line > Len(text[top.file])
          THEN loading' = [loading EXCEPT !.stack = SubSeq(@, 1, n - 1),
                                          !.sources = Append(@, top.file)]
          ELSE LET l == text[top.file][top.line]
                   rest == [loading.stack EXCEPT ![n].line = @ + 1]
               IN CASE l.tag \notin {"include", "import"} -> loading' = [loading EXCEPT !.stack = rest]
                    [] Found(l, top.file) = Nothing -> Fail
                    [] Found(l, top.file) \in loading.visited -> Fail
                    [] OTHER -> loading' = [loading EXCEPT
                                  !.visited = @ \cup {Found(l, top.file)},
                                  !.stack = Append(rest, [file |-> Found(l, top.file), line |-> 1])]
    /\ UNCHANGED <<text, wanted>>

\* load_world reads the files that were found, those that are included before
\* the one that includes them.
ReadWorld ==
    /\ loading.at = "expand" /\ loading.stack = <<>>
    /\ LET world == ParsedWorld(loading.world, loading.sources) IN
         IF world.places = <<>> /\ world.start = "" THEN Fail
         ELSE loading' = [loading EXCEPT !.at = "universe", !.line = @ + 1,
                 !.worlds = [w \in DOMAIN @ \cup {loading.world} |->
                               IF w = loading.world THEN world ELSE @[w]]]
    /\ UNCHANGED <<text, wanted>>

\* The end of the universe file, and active_world.
DefaultWorld ==
    LET named == Meta(text[UniverseFile], "universe", "default_world") IN
      IF named = "" THEN "default_world" ELSE named
ChooseWorld ==
    /\ loading.at = "universe" /\ loading.line > Len(text[UniverseFile])
    /\ LET w == IF wanted = "" THEN DefaultWorld ELSE wanted IN
         IF {DefaultWorld, w} \subseteq DOMAIN loading.worlds
         THEN loading' = [loading EXCEPT !.at = "loaded", !.chosen = loading.worlds[w], !.world = w]
         ELSE Fail
    /\ UNCHANGED <<text, wanted>>

LoaderNext == IncludeWorld \/ Expand \/ ReadWorld \/ ChooseWorld

(***************************************************************************)
(* What is promised: what was written is what is there.                    *)
(***************************************************************************)

\* The blocks of a kind that are closed before another one is opened, from
\* their opening line to the line that closes them.
Opens(lines, i, kind) == i \in DOMAIN lines /\ lines[i].tag = "open" /\ lines[i].key = kind
Written(lines, kind) ==
    {p \in (DOMAIN lines) \X (DOMAIN lines) :
       /\ p[1] < p[2] /\ Opens(lines, p[1], kind) /\ lines[p[2]].tag = "end"
       /\ \A m \in p[1] + 1 .. p[2] - 1 : lines[m].tag \notin {"open", "end"}}

\* Keys that mean what they say in every block that knows them.
PlainKeys == {"name", "description", "location", "prototype"}

\* block b says what is written from line i to line j.
SaysWhat(b, lines, i, j) ==
    LET said(k) == {m \in i .. j : lines[m].tag = "set" /\ lines[m].key = k} IN
    /\ b.name = lines[i].value
    /\ \A k \in PlainKeys \cap DOMAIN b.fields :
         /\ said(k) # {}
         /\ \E m \in said(k) : b.fields[k] = lines[m].value /\ \A n \in said(k) : n <= m
    /\ \A k \in PlainKeys : said(k) # {} /\ b.kind \in {"item", "npc"} /\ k \in {"name", "location"}
         => k \in DOMAIN b.fields
    /\ Len(Notes(b, "entry")) = Cardinality({m \in i .. j : lines[m].tag = "entry"})
    /\ b.kind \in {"item", "prototype", "npc", "spawn-template"} =>
         Len(Notes(b, "trigger")) = Cardinality({m \in i .. j : lines[m].tag = "trigger"})

ParserOf(kind) ==
    CASE kind \in {"item", "prototype"} -> "item"
      [] kind \in {"spawner", "spawn-template"} -> "spawner"
      [] kind \in {"loot-spawner", "loot-template"} -> "loot"
      [] kind \in {"resource-spawner", "resource-template"} -> "resource"
      [] kind = "behavior-template" -> "behavior"
      [] kind \in {"creature", "effect", "player-template"} -> "anatomy"
      [] OTHER -> kind
BlockKinds == {"item", "prototype", "npc", "spawner", "spawn-template", "loot-spawner",
               "loot-template", "resource-spawner", "resource-template", "schedule",
               "behavior-template", "creature"}

\* A paragraph that has only lines of a place.  Those with triggers are left
\* out: triggers are taken from the blocks around as well.
Paragraphs(lines) ==
    LET ends(i) == i \notin DOMAIN lines \/ lines[i].tag = "blank" IN
      {p \in (DOMAIN lines) \X (DOMAIN lines) :
         /\ p[1] <= p[2] /\ ends(p[1] - 1) /\ ends(p[2] + 1)
         /\ \A m \in p[1] .. p[2] : lines[m].tag \in {"colon", "section"}}
PlaceSays(place, lines, i, j) ==
    \A d \in DOMAIN place.exits :
      \E m \in i .. j : lines[m].tag = "colon" /\ lines[m].key = d /\ lines[m].value = place.exits[d]

\* When the files of a world have been found: each is there once.  Each block
\* that is closed before another one is opened comes out of its parser as it
\* was written, whatever stands around it and in other files; where all blocks
\* of a kind are closed like that, nothing else comes out.  A paragraph with a
\* base_name is a place with the exits written there.
ParsedAsWritten ==
    loading.at = "expand" /\ loading.stack = <<>> =>
      LET world == ParsedWorld(loading.world, loading.sources)
          files == ToSet(loading.sources)
      IN /\ Cardinality(files) = Len(loading.sources)
         /\ \A kind \in BlockKinds :
              LET out == Kind(world, ParserOf(kind), kind)
                  written == {w \in files \X UNION {Written(text[f], kind) : f \in files} :
                                w[2] \in Written(text[w[1]], kind)}
                  opened == {p \in files \X (1 .. LinesMost) : Opens(text[p[1]], p[2], kind)}
              IN /\ \A w \in written : \E n \in DOMAIN out : SaysWhat(out[n], text[w[1]], w[2][1], w[2][2])
                 /\ Cardinality(opened) = Cardinality(written) => Len(out) = Cardinality(written)
         /\ \A f \in files : \A p \in Paragraphs(text[f]) : \A m \in p[1] .. p[2] :
              text[f][m].tag = "colon" /\ text[f][m].key = "base_name" =>
                \E n \in DOMAIN world.places :
                  /\ world.places[n].name = text[f][m].value
                  /\ PlaceSays(world.places[n], text[f], p[1], p[2])
=============================================================================
