---------------------------- MODULE CardEvidence ----------------------------
(***************************************************************************)
(* What one review card says of the evidence found at an unsafe seam: its  *)
(* class, what is missing, its coverage block and whether an agent may     *)
(* repair it.  The evidence is what the detectors and the receipt index    *)
(* hand to build_card; the family stands for the groups of operation       *)
(* families that the rules tell apart.                                     *)
(***************************************************************************)
EXTENDS Naturals

Family ==
  {"pointer",       \* an operation with obligations of its own
   "stable_bytes",  \* a safe-JS heuristic: no unsafe contract is asked for
   "ffi",
   "concurrency",   \* Send/Sync impls, atomics, static mut
   "declaration"}   \* unsafe declarations, unknown operations, inline asm

Reach   == {"unreached", "owner_reached", "external_reached", "unknown"}
Witness == {"none", "wrong_tool", "receipt", "verdict"}
Route   == {"tool", "human", "unsupported"}

\* repairable: output/agent/repairs has an action for an open obligation.
Evidence ==
  [family : Family, contract : BOOLEAN, guard : BOOLEAN, reach : Reach,
   witness : Witness, routes : SUBSET Route, repairable : BOOLEAN]

-----------------------------------------------------------------------------
(* Classes.                                                                *)

ActionableClass ==
  {"guarded_unwitnessed", "contract_missing", "guard_missing",
   "unsafe_unreached", "witness_mismatch", "requires_loom",
   "miri_unsupported"}

ReviewClass ==
  ActionableClass \cup {"guarded_and_witnessed", "suppressed", "baseline_known"}

IsActionable(class) == class \in ActionableClass

ContractForClass(e) == e.contract \/ e.family = "stable_bytes"

\* The first gap found decides, in the order of classify.rs.
FirstGap(e) ==
  IF ~ContractForClass(e)           THEN "contract_missing"
  ELSE IF ~e.guard                  THEN "guard_missing"
  ELSE IF e.reach = "unreached"     THEN "unsafe_unreached"
  ELSE "guarded_unwitnessed"

Classify(e) ==
  CASE e.family = "ffi"         -> "miri_unsupported"
    [] e.family = "concurrency" -> "requires_loom"
    [] OTHER                    -> FirstGap(e)

\* An imported receipt, or one for a tool that is not routed.
Witnessed(e) == e.witness \in {"receipt", "verdict"}

ClassWithReceipts(e) ==
  LET class == Classify(e)
  IN  CASE class # "guarded_unwitnessed" -> class
        [] class = "guarded_unwitnessed" /\ e.witness = "receipt" ->
             "guarded_and_witnessed"
        [] class = "guarded_unwitnessed" /\ e.witness = "wrong_tool" ->
             "witness_mismatch"
        [] OTHER -> class

\* The policy ledgers have the last word; a suppression wins.
CardClass(e, suppressed, known) ==
  CASE suppressed             -> "suppressed"
    [] ~suppressed /\ known   -> "baseline_known"
    [] ~suppressed /\ ~known  -> ClassWithReceipts(e)

Missing(e) ==
  {kind \in {"contract", "guard", "reach", "witness"} :
     \/ kind = "contract" /\ ~ContractForClass(e)
     \/ kind = "guard" /\ ~e.guard
     \/ kind = "reach" /\ e.reach = "unreached"
     \/ kind = "witness" /\ ~Witnessed(e)}

-----------------------------------------------------------------------------
(* Coverage.                                                               *)

Slot  == {"contract", "guard", "test_reach", "witness_receipt"}
Level == {"missing", "weak", "present"}

Coverage == [Slot -> Level]

\* The words "present" and "weak" are looked for in reach.state.
ReachLevel(reach) == IF reach \in {"present", "weak"} THEN reach ELSE "missing"

Present(b) == IF b THEN "present" ELSE "missing"

CoverageOf(e, class) ==
  [slot \in Slot |->
     CASE slot = "contract" -> Present(ContractForClass(e))
       [] slot = "guard" ->
            IF e.guard /\ class = "guard_missing" THEN "weak"
            ELSE Present(e.guard)
       [] slot = "test_reach" -> ReachLevel(e.reach)
       [] slot = "witness_receipt" -> Present(Witnessed(e))]

-----------------------------------------------------------------------------
(* Readiness for an agent.                                                 *)

HumanFamily == {"ffi", "declaration"}

\* compute_agent_lsp_readiness, given whether a card-scoped repair exists.
Readiness(e, class, repair) ==
  LET human   == class = "miri_unsupported" \/ e.family \in HumanFamily
                 \/ "human" \in e.routes
      receipt == class = "requires_loom"
      reasons == human \/ receipt \/ ~repair \/ "tool" \notin e.routes
  IN  CASE ~IsActionable(class) \/ Missing(e) = {} -> "unsupported"
        [] IsActionable(class) /\ Missing(e) = {"witness"} ->
             "requires_witness_receipt"
        [] OTHER ->
             IF "unsupported" \in e.routes THEN "unsupported"
             ELSE IF ~reasons THEN "ready"
             ELSE IF human    THEN "needs_human"
             ELSE IF receipt  THEN "requires_witness_receipt"
             ELSE "unsupported"

MissingRepair(e) == Missing(e) \cap {"contract", "reach", "witness"} # {}

\* domain_has_card_scoped_repairs, what the coverage block goes by.
CoverageRepair(e) ==
  MissingRepair(e) \/ (e.family \notin HumanFamily /\ ~e.guard)

\* repairs::build, what the agent packet goes by.
PacketRepair(e) == MissingRepair(e) \/ (~e.guard /\ e.repairable)

=============================================================================
