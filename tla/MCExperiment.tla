---------------------------- MODULE MCExperiment ----------------------------
(* Values for the constants of Experiment. *)
EXTENDS Experiment

(* Two distinct seeds, the first one twice. *)
MCSeeds == <<3, 3, 1>>
=============================================================================
