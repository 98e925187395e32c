------------------------- MODULE ChangelogCategories -------------------------
(***************************************************************************)
(* The changelog categories of package chlog: how the word after "+" in    *)
(* "@jekyllbot: merge +word" is turned into a slug, the slug into a        *)
(* section of History.markdown and the section into labels.                *)
(*                                                                         *)
(* A word is an uninterpreted value; the only thing the code asks of it is *)
(* which category prefixes it starts with, which is the constant           *)
(* StartsWith.                                                             *)
(***************************************************************************)
EXTENDS Naturals, Sequences

CONSTANTS
  Words,       \* what a comment may put after "+", lowercased and hyphenated
  NoWord,      \* no "+word" in the comment (the empty string)
  StartsWith   \* the pairs <<word, prefix>> for which HasPrefix holds

Category(prefix, slug, section, labels) ==
  [prefix |-> prefix, slug |-> slug, section |-> section, labels |-> labels]

\* The table, in the order the code searches it.
categories == <<
  Category("major", "major-enhancements", "Major Enhancements", {"feature"}),
  Category("minor", "minor-enhancements", "Minor Enhancements", {"enhancement"}),
  Category("bug",   "bug-fixes",          "Bug Fixes",          {"bug", "fix"}),
  Category("fix",   "fix",                "Bug Fixes",          {"bug", "fix"}),
  Category("dev",   "development-fixes",  "Development Fixes",  {"internal", "fix"}),
  Category("doc",   "documentation",      "Documentation",      {"documentation"}),
  Category("port",  "forward-ports",      "Forward Ports",      {"forward-port"}),
  Category("site",  "site-enhancements",  "Site Enhancements",  {"documentation"}) >>

CategoryLabels == UNION { categories[i].labels : i \in DOMAIN categories }

changeSectionLabelNone == "none"

\* What strings.HasPrefix says of such words: no prefix of the table starts with
\* another one, a word that is a slug has the prefix of no other category (it may
\* lack that of its own, as "forward-ports" does), and the sections have capitals.
ASSUME WordsAssumption ==
  /\ \A word \in Words, i, j \in DOMAIN categories :
       /\ <<word, categories[i].prefix>> \in StartsWith \/ word = categories[i].slug
       /\ <<word, categories[j].prefix>> \in StartsWith
       => i = j
  /\ \A word \in Words, i \in DOMAIN categories : word # categories[i].section

\* Each of the three lookups takes the first category that answers, and keeps
\* its argument (or no label at all) when none does.
First(hits) == CHOOSE i \in hits : \A j \in hits : i <= j

Slugs    == Words \cup { categories[i].slug : i \in DOMAIN categories }
Sections == Slugs \cup { categories[i].section : i \in DOMAIN categories }
                  \cup {changeSectionLabelNone}

normalizeLabel == [word \in Words |->
  LET hits == { i \in DOMAIN categories : <<word, categories[i].prefix>> \in StartsWith }
  IN  IF hits = {} THEN word ELSE categories[First(hits)].slug]

sectionForLabel == [slug \in Slugs |->
  LET hits == { i \in DOMAIN categories : slug = categories[i].slug }
  IN  IF hits = {} THEN slug ELSE categories[First(hits)].section]

labelsForSubsection == [section \in Sections |->
  LET hits == { i \in DOMAIN categories : section = categories[i].section }
  IN  IF hits = {} THEN {} ELSE categories[First(hits)].labels]

\* Mutant of ChangeSection: the word is not normalised.
ChangeSection_NotNormalized(word) ==
  IF word = NoWord THEN changeSectionLabelNone ELSE sectionForLabel[word]

\* The section a merge comment asks for.
ChangeSection(word) ==
  IF word = NoWord THEN changeSectionLabelNone
                   ELSE sectionForLabel[normalizeLabel[word]]

(***************************************************************************)
(* What the three lookups should amount to: the section and the labels of  *)
(* one and the same category, the first whose prefix or slug the word has. *)
(***************************************************************************)
Matching(word) ==
  { i \in DOMAIN categories : \/ <<word, categories[i].prefix>> \in StartsWith
                              \/ word = categories[i].slug }

ExpectedSection(word) ==
  IF word = NoWord THEN changeSectionLabelNone
  ELSE IF Matching(word) = {} THEN word
  ELSE categories[First(Matching(word))].section

ExpectedLabels(word) ==
  IF word = NoWord \/ Matching(word) = {} THEN {}
  ELSE categories[First(Matching(word))].labels
=============================================================================
