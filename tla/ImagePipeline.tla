---------------------------- MODULE ImagePipeline ----------------------------
(***************************************************************************)
(* Uploaded screenshots: their storage, the preprocessing pipeline and the *)
(* detection of the chart (upload_service.py, image_processing_service.py, *)
(* preprocessing_executor.py, image_enhancement.py,                        *)
(* chart_detection_service.py and their routers).                          *)
(*                                                                         *)
(* An image is its size, its channels and the level of one grey pixel.  A  *)
(* float that is truncated may have fallen short of an integer, so what a  *)
(* request comes to is a set of outcomes.                                  *)
(***************************************************************************)
EXTENDS Naturals, Sequences

CONSTANTS
  Absent,       \* an optional field that is not given
  LargestSide   \* a picture that is no wider and no higher can always be made

NoImage == [width |-> 0, height |-> 0, channels |-> 0, level |-> 0]   \* OpenCV has none to give

-----------------------------------------------------------------------------
(* POST /upload: a file is kept under a name of its own.                   *)

Extensions == {".png", ".jpg", ".jpeg", ".bmp", ".webp"}        \* ALLOWED_EXTENSIONS

\* The declared type is refused only when it names something other than an image; what
\* the file contains is not looked at.
UploadAnswer(type, extension) ==
  IF type \in {Absent, "image", "application/octet-stream"} /\ extension \in Extensions
  THEN 200 ELSE 400

\* save_image: what the directory holds once a file has been stored as name (a uuid).
Stored(uploads, name, content) == [n \in DOMAIN uploads \cup {name} |->
                                     IF n = name THEN content ELSE uploads[n]]

\* load_image: only the last component of the path counts ("..": the directory above the
\* uploads; none, as in ".": that of the uploads, which exists and is no image).
LoadImage(uploads, name) ==
  CASE name = ".."                -> "invalid"
    [] name = ""                  -> "unreadable"
    [] name \notin DOMAIN uploads -> "missing"
    [] uploads[name] = NoImage     -> "unreadable"
    [] OTHER                      -> "loaded"

\* What the routes that read an upload answer to it.
Answer(load) ==
  CASE load = "loaded"  -> 200
    [] load = "missing" -> 404
    [] OTHER            -> 400

-----------------------------------------------------------------------------
(* image_enhancement.                                                      *)

AtMost(top, n) == IF n > top THEN top ELSE n

\* The nearest integer to n quarters, a half going to the even one (cvRound).
Quarters(n) ==
  LET q == n \div 4 IN
  CASE n % 4 < 2 -> q
    [] n % 4 = 3 -> q + 1
    [] n % 4 = 2 -> q + (q % 2)

NormalizeBrightness(image) == [image EXCEPT !.level = AtMost(255, @ + 15)]
EnhanceContrast(image)     == [image EXCEPT !.level = AtMost(255, Quarters(5 * @))]
ConvertToGrayscale(image)  == [image EXCEPT !.channels = 1]

\* int(side * (target / float(other))): one less, possibly, when the product is exact.
Scaled(side, target, other) ==
  LET exact == (side * target) \div other IN
  {exact} \cup (IF (side * target) % other = 0 THEN {exact - 1} ELSE {})

\* cv2.resize raises for a target with a zero, and for one it cannot represent or allocate.
Resized(image, w, h) ==
  IF w = 0 \/ h = 0 THEN {NoImage}
  ELSE {[image EXCEPT !.width = w, !.height = h]}
         \cup (IF w > LargestSide \/ h > LargestSide THEN {NoImage} ELSE {})

ResizeImage(image, width, height) ==
  CASE width = Absent  -> UNION {Resized(image, w, height) : w \in Scaled(image.width, height, image.height)}
    [] height = Absent -> UNION {Resized(image, width, h) : h \in Scaled(image.height, width, image.width)}
    [] OTHER           -> Resized(image, width, height)

-----------------------------------------------------------------------------
(* The pipeline: the built-in stages in their order, a stage that fails    *)
(* leaving the image as it was; then the registered ones, reported but not *)
(* run.                                                                    *)

Requests(sizes) == [apply_brightness : BOOLEAN, apply_contrast : BOOLEAN,
                    apply_grayscale : BOOLEAN, resize_width : sizes \cup {Absent},
                    resize_height : sizes \cup {Absent}]

BuiltInStages == <<"brightness_normalization", "contrast_enhancement",
                   "grayscale_conversion", "resize">>

RegisteredStages == <<"identity">>          \* _register_default_pipeline

Enabled(stage, request) ==
  CASE stage = "brightness_normalization" -> request.apply_brightness
    [] stage = "contrast_enhancement"     -> request.apply_contrast
    [] stage = "grayscale_conversion"     -> request.apply_grayscale
    [] stage = "resize"                   -> \/ request.resize_width # Absent
                                             \/ request.resize_height # Absent

Operation(stage, request, image) ==
  CASE stage = "brightness_normalization" -> {NormalizeBrightness(image)}
    [] stage = "contrast_enhancement"     -> {EnhanceContrast(image)}
    [] stage = "grayscale_conversion"     -> {ConvertToGrayscale(image)}
    [] stage = "resize"                   -> ResizeImage(image, request.resize_width,
                                                         request.resize_height)

\* One run of a stage: the image so far, the report of each stage run, the failures.
Ran(run, stage, made) ==
  [image  |-> IF made = NoImage THEN run.image ELSE made,
   stages |-> Append(run.stages, [name |-> stage, success |-> made # NoImage]),
   failed |-> IF made = NoImage THEN run.failed + 1 ELSE run.failed]

RunStage(runs, stage, request) ==
  IF Enabled(stage, request)
  THEN UNION {{Ran(r, stage, made) : made \in Operation(stage, request, r.image)} : r \in runs}
  ELSE runs

\* execute, on a loaded image: every run the request may come to.
Execute(request, image) ==
  LET Stage(i, runs) == RunStage(runs, BuiltInStages[i], request)
  IN  Stage(4, Stage(3, Stage(2, Stage(1, {[image |-> image, stages |-> <<>>, failed |-> 0]}))))

Reported(run) ==
  run.stages \o [i \in DOMAIN RegisteredStages |-> [name |-> RegisteredStages[i], success |-> TRUE]]

\* The response: summary, statistics and status.
Response(run) ==
  [total       |-> Len(Reported(run)),
   successful  |-> Len(Reported(run)) - run.failed,
   failed      |-> run.failed,
   width       |-> run.image.width,
   height      |-> run.image.height,
   channels    |-> run.image.channels,
   color_space |-> IF run.image.channels = 1 THEN "GRAY" ELSE "BGR",
   status      |-> IF run.failed = 0 THEN "success" ELSE "partial_success"]

-----------------------------------------------------------------------------
(* Chart detection: fixed margins.  (These products are exact or truncated *)
(* as the integers are.)                                                   *)

Detect(image) ==
  [left  |-> (image.width * 5) \div 100,   right  |-> (image.width * 95) \div 100,
   top   |-> (image.height * 10) \div 100, bottom |-> (image.height * 90) \div 100]

PlottingArea(region) ==
  [x |-> region.left, y |-> region.top,
   width |-> region.right - region.left, height |-> region.bottom - region.top]

-----------------------------------------------------------------------------
(* The three routes that read an upload: the answer, and what is in it.    *)

Read(uploads, name, bodies) ==
  LET load == LoadImage(uploads, name) IN
  [code |-> Answer(load), bodies |-> IF load = "loaded" THEN bodies ELSE {}]

ImageInformation(uploads, name) == Read(uploads, name, {uploads[name]})

ExecutePreprocessing(uploads, name, request) ==
  Read(uploads, name, {Response(run) : run \in Execute(request, uploads[name])})

DetectChart(uploads, name) == Read(uploads, name, {PlottingArea(Detect(uploads[name]))})
=============================================================================
