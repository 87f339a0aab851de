---------------------------- MODULE MCStreamReader ----------------------------
(* Words of two binary digits: the top sequence number and the top          *)
(* millisecond are both within reach of a few entries.                      *)
EXTENDS StreamReader

(* Every form; explicit IDs at the ends of a millisecond and just below. *)
MCTexts == {text \in IdTexts : text.form = "explicit" => text.id.seq # 1}

===============================================================================
