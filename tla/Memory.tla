------------------------------- MODULE Memory -------------------------------
(***************************************************************************)
(* The legacy target folder: what an engagement is suggested to be by the  *)
(* folder's memory.md, from which an imported run is created.              *)
(*                                                                         *)
(* A memory holds the host of its Target line, if there is one, and the    *)
(* first cells of its table of assets, fewer than fifty.  Assets are named *)
(* by host; a wildcard is read as the name it is a wildcard of.            *)
(***************************************************************************)
EXTENDS Scope

(* An asset given as a URL keeps the spelling of its path, a bare one is   *)
(* spelled in small letters.                                               *)
Cell(form, host, port, path, spelling) ==
  [form |-> form, host |-> host, port |-> port, path |-> path, spelling |-> spelling]

(* _asset_to_rule, read as _parse_rule reads it: no scheme, and no path    *)
(* for the root.                                                           *)
AssetRule(cell) ==
  IF cell.port = NoPort /\ cell.path \in {NoPath, RootPath}
  THEN DomainRule(cell.host)
  ELSE UrlRule(NoScheme, cell.host, cell.port,
               IF cell.path = RootPath THEN NoPath ELSE cell.path)

(* Two cells are the same asset when their rules are the same text. *)
RuleText(cell) ==
  <<AssetRule(cell), IF cell.form = "url" THEN cell.spelling ELSE "small">>

(* _parse_in_scope_assets: the rules of the cells that name a host, once.  *)
Assets(cells) ==
  LET new(i) == /\ cells[i].host # NoHost
                /\ \A j \in 1..i - 1 : RuleText(cells[j]) # RuleText(cells[i])
      kept   == SelectSeq([i \in 1..Len(cells) |-> i], new) IN
  [n \in 1..Len(kept) |-> AssetRule(cells[kept[n]])]

(* parse_target_memory: the target is the host of the Target line, or that *)
(* of the first asset when no asset has that host.                         *)
TargetLine(memory) == memory.target                   \* defect: as it is written

SuggestedTarget(memory) ==
  LET rules == Assets(memory.cells) IN
  IF rules = << >> \/ \E i \in 1..Len(rules) : rules[i].host = memory.target
  THEN memory.target
  ELSE rules[1].host

SuggestedScope(memory) == [in |-> Assets(memory.cells), out |-> << >>]
=============================================================================
