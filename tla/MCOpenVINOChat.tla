--------------------------- MODULE MCOpenVINOChat ----------------------------
EXTENDS OpenVINOChat

Sound == [usable |-> TRUE, xml |-> TRUE, files |-> TRUE, weights |-> TRUE,
          tokenizer |-> TokenizerFile, checksums |-> TRUE]

(* A sound artifact, one without a tokenizer, and each single defect.      *)
OneDefect ==
    {Sound,
     [Sound EXCEPT !.tokenizer = {}, !.checksums = FALSE],
     [Sound EXCEPT !.usable = FALSE],
     [Sound EXCEPT !.xml = FALSE],
     [Sound EXCEPT !.files = FALSE],
     [Sound EXCEPT !.weights = FALSE],
     [Sound EXCEPT !.tokenizer = {"openvino_tokenizer.xml"}],
     [Sound EXCEPT !.checksums = FALSE]}
=============================================================================
