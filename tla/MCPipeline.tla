----------------------------- MODULE MCPipeline -----------------------------
EXTENDS Pipeline

(* A serial filter and a parallel one between collect and return. *)
SerialThenParallel == <<TRUE, FALSE>>
ParallelOnly == <<FALSE>>
=============================================================================
