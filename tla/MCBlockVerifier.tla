-------------------------- MODULE MCBlockVerifier --------------------------
(* Model-checking instance of BlockVerifier: two producers, heights up to *)
(* 4 (three blocks after genesis), and a peer that sends two forged or    *)
(* replayed blocks.                                                        *)
EXTENDS BlockVerifier

CONSTANTS s, a, p1, p2

(* Every defect a peer can put in a block; StripVals is kept out of the   *)
(* single-sequencer safety run and checked on its own.                     *)
SingleAttacks == {"bad_data", "no_sig", "no_proposer", "bad_validator",
                  "claim_seq", "bad_commit"}
StripVals == {"strip_vals"}
BasedAttacks == {"bad_data", "no_sig", "bad_commit"}
=============================================================================
