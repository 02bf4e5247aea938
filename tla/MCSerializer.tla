---------------------------- MODULE MCSerializer ----------------------------
(* Small instances of Serializer for TLC. *)
EXTENDS Serializer

CONSTANTS t1, t2

AllFiles == {"l1_dpu_workloads", "cache_misses", "l2_dpu_workloads", "l2_dpu_workloads_presplit",
             "dma_workloads", "shave_workloads"}
=============================================================================
