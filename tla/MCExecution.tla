----------------------------- MODULE MCExecution -----------------------------
EXTENDS Execution, TLC

CONSTANTS c1, c2, b1, i1, i2, i3, o1

Two(content) == <<content, content>>

(* Two quantizations of a catalogue model, a download of the admitted      *)
(* model, three imports labelled with its id, an OpenVINO package; the     *)
(* download and one import have an architecture that is not supported.     *)
Specs ==
    [a \in {c1, c2, b1, i1, i2, i3, o1} |->
        [model_id |-> CASE a \in {c1, c2} -> "coder"
                        [] a = o1 -> "package"
                        [] OTHER -> "admitted",
         imported |-> a \in {i1, i2, i3, o1},
         format |-> IF a = o1 THEN "OpenVINO IR" ELSE "GGUF",
         backend |-> CASE a = o1 -> "openvino" [] a = i2 -> None [] OTHER -> "gguf",
         declared |-> CASE a \in {c1, i1} -> Two("qwen2 file")
                        [] a = c2 -> Two("plain file")
                        [] a \in {b1, i3} -> Two("mamba file")
                        [] a = i2 -> Two("llama file")
                        [] a = o1 -> Two("xml")]]

Headers == [c \in {"qwen2 file", "llama file", "mamba file", "plain file", "xml"} |->
              CASE c = "qwen2 file" -> "qwen2"
                [] c = "llama file" -> "llama"
                [] c = "mamba file" -> "mamba"
                [] c = "plain file" -> None
                [] c = "xml" -> "unreadable"]

CatalogModel == "coder" :> [id |-> "coder", architecture |-> "Transformer",
                            supported_runtimes |-> {"llama.cpp / llama.app", "Ollama"},
                            supported_backends |-> {"Vulkan", "CUDA", "ROCm", "CPU"}]

Commands ==
    [op : Operation, model : {"admitted"}, wanted : {Artifact}]
    \cup [op : {"run", "chat", "http chat"}, model : {"package"}, wanted : {Artifact}]
    \cup [op : {"execute", "http run"}, model : {"coder"}, wanted : {Artifact, {c2}}]

Scenes ==
    {s \in Commands \X SUBSET Artifact :
        CASE s[1].model = "coder" -> s[2] \in {{c1}, {c1, c2}}
          [] s[1].model = "admitted" -> s[2] \in {{b1}, {i1}, {b1, i2}}
          [] s[1].model = "package" -> s[2] = {o1}}

Present == [executable |-> TRUE, probes |-> TRUE, options |-> TRUE, vulkan |-> TRUE,
            gpuBackends |-> {"Vulkan"}]

Detections == {Present, [Present EXCEPT !.executable = FALSE]}
=============================================================================
