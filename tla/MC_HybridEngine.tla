-------------------------- MODULE MC_HybridEngine --------------------------
(* Instances of HybridEngine for TLC. *)
EXTENDS HybridEngine, TLC

Plain == [engine |-> "vllm", async |-> FALSE, tp |-> 2, tags |-> TRUE,
          preloaded |-> FALSE, lora |-> FALSE, layered |-> FALSE,
          offloadParam |-> {}, offloadOptimizer |-> {}, cpuPolicy |-> FALSE]

Offloading ==
    [Plain EXCEPT !.offloadParam = Modules, !.offloadOptimizer = Modules]

\* vLLM without and with offloading, also of a version without tags; with LoRA
\* adapters, once configured wrongly; FSDP2's own offloading; SGLang in both
\* modes, the asynchronous one without tensor parallelism and, where it hangs,
\* with it.
WorkingSettings ==
    {Plain, Offloading,
     [Offloading EXCEPT !.offloadParam = {"critic"}],
     [Offloading EXCEPT !.tags = FALSE],
     [Offloading EXCEPT !.lora = TRUE, !.preloaded = TRUE],
     [Plain EXCEPT !.lora = TRUE, !.preloaded = TRUE, !.layered = TRUE],
     [Plain EXCEPT !.lora = TRUE, !.layered = TRUE],
     [Offloading EXCEPT !.cpuPolicy = TRUE],
     [Offloading EXCEPT !.engine = "sglang"],
     [Offloading EXCEPT !.engine = "sglang", !.async = TRUE, !.tp = 1],
     [Offloading EXCEPT !.engine = "sglang", !.async = TRUE]}

AsyncVllm == {[Plain EXCEPT !.async = TRUE]}
=============================================================================
