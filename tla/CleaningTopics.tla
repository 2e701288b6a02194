--------------------------- MODULE CleaningTopics ---------------------------
(***************************************************************************)
(* The Kafka topics of the cleaning service and the routing decisions made *)
(* on them (common/constant/kafka_constants.py, scheduling/format_router.  *)
(* py and the "file" section of config/settings.yaml).  A topic is named   *)
(* by its Python constant, a file by the two things the router looks at:   *)
(* the extension of its name and the MIME type of the task.                *)
(***************************************************************************)

PreprocessTopics == {"PDF_PREPROCESS", "DOCX_PREPROCESS", "XLSX_PREPROCESS",
                     "PPTX_PREPROCESS", "OCR_PREPROCESS"}

ElementTopics == {"ELEMENT_TABLE", "ELEMENT_IMAGE", "ELEMENT_FORMULA"}

\* CleaningTopics.consume_topics: what CleaningTaskConsumer reads.
ConsumeTopics == {"TASK_SUBMIT", "GENERAL_CLEANING", "RETRY"}
                   \cup PreprocessTopics \cup ElementTopics

ProduceTopics == {"UNIFIED_INPUT", "TASK_COMPLETE", "TASK_FAILED", "DLQ"}

Topics == ConsumeTopics \cup ProduceTopics

-----------------------------------------------------------------------------
\* Python's None as a routing result: no preprocessing topic.
NoTopic == "none"

\* settings.yaml, file.supported_types
SupportedTypes == {"pdf", "docx", "xlsx", "pptx", "md", "txt", "png", "jpg",
                   "jpeg", "bmp", "tiff"}

FORMAT_TO_TOPIC ==
  [format \in SupportedTypes |->
     CASE format = "pdf"  -> "PDF_PREPROCESS"
       [] format = "docx" -> "DOCX_PREPROCESS"
       [] format = "xlsx" -> "XLSX_PREPROCESS"
       [] format = "pptx" -> "PPTX_PREPROCESS"
       [] format \in {"md", "txt"} -> NoTopic
       [] format \in {"png", "jpg", "jpeg", "bmp", "tiff"} -> "OCR_PREPROCESS"]

\* settings.yaml, file.mime_to_format; a MIME type is named by its subtype.
MimeToFormat ==
  [mime \in {"pdf", "docx", "xlsx", "pptx", "markdown", "plain",
             "image/png", "image/jpeg", "image/bmp", "image/tiff"} |->
     CASE mime = "markdown" -> "md"
       [] mime = "plain"    -> "txt"
       [] mime \in {"pdf", "docx", "xlsx", "pptx"} -> mime
       [] OTHER             -> "image"]

\* FormatRouter.route: the extension decides, the MIME type is the fallback.
FormatOf(file) ==
  IF file.ext \notin SupportedTypes /\ file.mime \in DOMAIN MimeToFormat
  THEN MimeToFormat[file.mime]
  ELSE file.ext

\* route raises UnsupportedFormatException exactly when this is false.
Routable(file) == FormatOf(file) \in SupportedTypes

\* The topic handle_task_submit sends a routable task to: route's result, or
\* GENERAL_CLEANING when route returns None.
RouteTarget(file) ==
  LET topic == FORMAT_TO_TOPIC[FormatOf(file)]
  IN  IF topic = NoTopic THEN "GENERAL_CLEANING" ELSE topic

=============================================================================
