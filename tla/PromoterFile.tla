----------------------------- MODULE PromoterFile -----------------------------
(***************************************************************************)
(* The text of a drbd-reactor promoter file, as far as the readers and the *)
(* writers of the repository tell texts apart: config-gen renders it from  *)
(* a profile, api/ha/utils.rs reads a profile back from it line by line,   *)
(* toml_parse.rs lists the start array for the editor, and toml_edit.rs    *)
(* replaces that array.  None of the readers is a TOML parser.             *)
(***************************************************************************)
EXTENDS Naturals, Sequences, FiniteSets

(* Entries of a start array: the OCF Filesystem agent or the mount unit,    *)
(* the address, an OCF agent, an agent with a "]" in a parameter, what is   *)
(* left of that one when it is cut there, a service.                        *)
Item == {"filesystem", "unit", "vip", "agent", "bracket", "cut", "service"}

(* promoter: the text has a start array; inline: the array is on one line;  *)
(* advanced: one of preferred-nodes, on-quorum-loss, dependencies-as...     *)
Text == [promoter: BOOLEAN, start: Seq(Item), inline: BOOLEAN, advanced: BOOLEAN]

(* A HaProfile, without the fields that every writer passes on.             *)
Profile ==
  [filesystem: BOOLEAN, unit: BOOLEAN, vip: BOOLEAN, agents: Seq(Item),
   services: Seq(Item), advanced: BOOLEAN]

If(p, x) == IF p THEN <<x>> ELSE <<>>

(* PROMOTER_TEMPLATE: mount, address, agents, services, each on its line.   *)
StartLines(p) ==
  (IF p.filesystem THEN <<"filesystem">> ELSE If(p.unit, "unit"))
  \o If(p.vip, "vip") \o p.agents \o p.services

Generated(p) ==
  [promoter |-> TRUE, start |-> StartLines(p), inline |-> FALSE, advanced |-> p.advanced]

(* parse_vip_from_config looks for the agent's name anywhere in a line.     *)
HasVip(t) == \E k \in DOMAIN t.start : t.start[k] = "vip"

(* parse_services_from_config reads the first string of each line that      *)
(* begins with a quote, but for agents and mount units.                     *)
ServiceLines(t) == {k \in DOMAIN t.start : t.start[k] = "service"}
ParsedServices(t) ==
  IF t.inline THEN <<>> ELSE [k \in 1..Cardinality(ServiceLines(t)) |-> "service"]

(* create_profile_from_toml: what is not parsed gets a default.             *)
ProfileOf(t) ==
  [filesystem |-> FALSE, unit |-> FALSE, vip |-> HasVip(t), agents |-> <<>>,
   services |-> ParsedServices(t), advanced |-> FALSE]

(* add_vip and remove_vip render the whole file anew from that profile.     *)
WithVip(t, v) == Generated([ProfileOf(t) EXCEPT !.vip = v])

RegeneratedStart(t, start) == [Generated(ProfileOf(t)) EXCEPT !.start = start]   \* mutant

(* update_start_array keeps the document and puts a new array on one line.  *)
ReplacedStart(t, start) == [t EXCEPT !.start = start, !.inline = TRUE]

(* parse_toml_with_agents splits an array on one line at the commas outside *)
(* quotes; of an array on many lines it takes every line up to the first    *)
(* "]", be it inside a string.                                              *)
Cuts(t) == {k \in DOMAIN t.start : t.start[k] = "bracket" /\ ~t.inline}
OneLine(t) == t.start
ManyLines(t) ==
  IF Cuts(t) = {} THEN t.start
  ELSE LET k == CHOOSE i \in Cuts(t) : \A j \in Cuts(t) : i <= j
       IN Append(SubSeq(t.start, 1, k - 1), "cut")

ParsedItems(t) == IF t.inline THEN OneLine(t) ELSE ManyLines(t)

(* What a reader finds, or a broken off write leaves, before the last byte  *)
(* of t is written: some of its entries and no end of the array, or the     *)
(* array whole and not the settings after it.                               *)
Beginnings(t) ==
  {[promoter |-> FALSE, start |-> [k \in 1..n |-> t.start[k]], inline |-> t.inline,
    advanced |-> FALSE] : n \in 0..Len(t.start)}
  \cup {[t EXCEPT !.advanced = FALSE]}
=============================================================================
