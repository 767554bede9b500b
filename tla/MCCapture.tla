------------------------------ MODULE MCCapture ------------------------------
EXTENDS Capture, TLC

CONSTANTS D1, D2, C1, C2

Lines(u, m, l) == [U |-> u, M |-> m, L |-> l]

\* Price high, #6 above #1 and #2 low in it; price low, #6 below #1 and #2 high
\* in it: the one after the other sells, the other after the one buys.
Top == [band1 |-> Lines(2, 4, 6), band2 |-> Lines(3, 5, 7), ma4 |-> 4, cci5 |-> 4, rsi6 |-> 1,
        price |-> 1, band7 |-> Lines(3, 4, 5), band8 |-> Lines(2, 4, 6)]
Bottom == [band1 |-> Lines(2, 4, 6), band2 |-> Lines(1, 3, 5), ma4 |-> 4, cci5 |-> 4, rsi6 |-> 7,
           price |-> 7, band7 |-> Lines(3, 4, 5), band8 |-> Lines(2, 4, 6)]
MCTimes == 1 .. 2
MCChart == <<Bottom, Top>>
MCSenders == MCTimes \cup {D1, D2}

\* Frames that broken calls leave untrimmed pile up until the next trim.
FewUntrimmed == Len(hist) <= MaxFrames + 1

\* One capture is cut off or cannot be cached, while the other and one drain go on.
FewCut == cut # {} => Cardinality(cut) = 1 /\ \E d \in Drains : sender[d] = Asleep

\* Slots of the server are interchangeable, and so are drains.
Slots == Permutations({C1, C2}) \cup Permutations({D1,D2})

-----------------------------------------------------------------------------
(* The image pipeline, over images and requests of a few sizes.            *)

I == INSTANCE ImagePipeline WITH Absent <- None, LargestSide <- 30

Sizes == {1, 2, 3, 20, 49}

Images == [width : Sizes, height : Sizes, channels : {3}, level : {200}]

Grey(l) == [width |-> 1, height |-> 1, channels |-> 3, level |-> l]

Shown(l) == I!EnhanceContrast(I!NormalizeBrightness(Grey(l))).level

\* The response tells what was made of the image (execute): with "success" the image has
\* the size and the colours that were asked for; with "partial_success" it has its own
\* size, only the resize has failed, and every other stage asked for was applied.
ASSUME ResponseTellsTheImage ==
  \A image \in Images, request \in I!Requests({1, 2, 20}) :
    \A run \in I!Execute(request, image) :
      LET r == I!Response(run)
          asked(target, side) == IF target = None THEN side ELSE target
      IN  /\ r.color_space = (IF request.apply_grayscale THEN "GRAY" ELSE "BGR")
          /\ r.total = r.successful + r.failed
          /\ request.apply_brightness /\ request.apply_contrast => run.image.level = Shown(200)
          /\ r.status = "success" =>
               \/ request.resize_width = None /\ request.resize_height = None
                    /\ <<r.width, r.height>> = <<image.width, image.height>>
               \/ /\ request.resize_width # None \/ request.resize_height # None
                  /\ r.width  = asked(request.resize_width, r.width)
                  /\ r.height = asked(request.resize_height, r.height)
          /\ r.status = "partial_success" =>
               /\ r.failed = 1 /\ r.width = image.width /\ r.height = image.height
               /\ \A i \in DOMAIN run.stages :
                    run.stages[i].success <=> run.stages[i].name # "resize"

\* A resize to one side keeps the ratio to within a pixel of the other side, and it fails
\* only when that pixel is the last, and then a request that only shrinks an image leaves
\* it as it is, or when a side would be beyond what can surely be made (resize_image).
ASSUME ResizeKeepsTheRatio ==
  \A image \in Images, h \in Sizes : \A made \in I!ResizeImage(image, None, h) :
    IF made = I!NoImage
    THEN \/ image.width * h <= image.height
         \/ h > 30 \/ image.width * h > 30 * image.height
    ELSE /\ made.height = h
         /\ made.width * image.height <= image.width * h
         /\ image.width * h <= (made.width + 1) * image.height

\* Brightness and contrast never put two shades in the other order, but every shade from
\* 189 up becomes the same white (normalize_brightness, enhance_contrast).
ASSUME ShadesKeepTheirOrder ==
  /\ \A k, l \in 0 .. 255 : k <= l => Shown(k) <= Shown(l)
  /\ \A l \in 0 .. 255 : Shown(l) = 255 <=> l >= 189

\* The plotting area lies within the image, and is empty only for an image one pixel
\* wide or high, which is a success all the same (detect).
ASSUME PlotIsWithinTheImage ==
  \A image \in [width : 1 .. 60, height : 1 .. 60, channels : {1}, level : {0}] :
    LET region == I!Detect(image)
        plot   == I!PlottingArea(region)
    IN  /\ plot.x + plot.width <= image.width /\ plot.y + plot.height <= image.height
        /\ plot.width > 0 <=> image.width > 1
        /\ plot.height > 0 <=> image.height > 1

\* Whatever is uploaded, a stored file shadows no other, and reading one that is no image
\* or naming the directory is refused, never answered as missing (load_image).
ASSUME UploadsAreRead ==
  \A old \in [{"a"} -> {I!NoImage, Grey(0)}], new \in {I!NoImage, Grey(0)} :
    LET up == I!Stored(old, "b", new) IN
      /\ I!LoadImage(up, "a") = I!LoadImage(old, "a")
      /\ I!ImageInformation(up, "b").code = (IF new = I!NoImage THEN 400 ELSE 200)
      /\ I!DetectChart(old, "b").code = 404 /\ I!DetectChart(old, "").code = 400
      /\ \A request \in I!Requests({1}) :
           I!ExecutePreprocessing(up, "b", request).bodies = {} <=> new = I!NoImage
=============================================================================
