------------------------------- MODULE PdfImages ------------------------------
(***************************************************************************)
(* The bytes behind the images of a page, under a limit for each image and *)
(* one for the call (src/src/pdf_impl.rs 2563-3128).  An image is what its *)
(* dictionary says, and what a decode of it gives: a JPEG, pixels, or an   *)
(* error.  Numbers saturate at MAX_U64.                                    *)
(***************************************************************************)
EXTENDS PdfPages

CONSTANTS MAX_U64, MAX_CALL_IMAGE_BYTES, DEFAULT_MAX_IMAGE_BYTES

ASSUME ImagesAssumption ==
  /\ MAX_U64 \in Nat /\ MAX_CALL_IMAGE_BYTES \in 0..(MAX_U64 - 1)
  /\ DEFAULT_MAX_IMAGE_BYTES \in 0..MAX_CALL_IMAGE_BYTES

Saturated(n) == IF n > MAX_U64 THEN MAX_U64 ELSE n
Up(n, by)    == (n + by - 1) \div by

\* External: the components of a color space, and those of the pixels it is
\* decoded to.
COMPONENTS == [gray |-> 1, rgb |-> 3, lab |-> 3, cmyk |-> 4, icc2 |-> 2, indexed |-> 1]
STRIDE     == [gray |-> 1, rgb |-> 3, lab |-> 3, cmyk |-> 4, icc2 |-> 3, indexed |-> 3]

HasFilter(handle, name) == \E k \in 1..Len(handle.filter_chain) : handle.filter_chain[k] = name
HasDct(handle)          == HasFilter(handle, "DCTDecode")
BareJpx(handle)         == handle.filter_chain = <<"JPXDecode">>

AtLeastOne(n) == IF n = 0 THEN 1 ELSE n

\* An indexed space expands to its base's components.
Components(handle) ==
  IF handle.color_space # "indexed" THEN COMPONENTS[handle.color_space]
  ELSE IF handle.indexed_base = "none" THEN 1 ELSE COMPONENTS[handle.indexed_base]

\* An estimate of a decode's size before it is made.
decode_estimate(handle) ==
  LET dims          == Saturated(AtLeastOne(handle.width) * AtLeastOne(handle.height))
      samples       == Saturated(dims * Components(handle))
      representable == Components(handle) = STRIDE[handle.color_space] /\ handle.color_space # "lab"
  IN  IF HasDct(handle) \/ BareJpx(handle) THEN handle.byte_size_compressed
      ELSE IF HasFilter(handle, "CCITTFaxDecode") THEN Up(dims, 8)
      ELSE IF representable THEN samples
      ELSE Saturated(samples * Up(handle.bits_per_component, 8))

NotRequested      == [arm |-> "not_requested", bytes |-> 0]
Served(arm, n)    == [arm |-> arm, bytes |-> n]
DecodeError(why)  == [arm |-> "error", bytes |-> 0, why |-> why]
SizeCap(scope, n) == [arm |-> "size_cap", bytes |-> 0, scope |-> scope, needed |-> n]

NoCap == <<>>

\* The limit that n more bytes break, if any.
actual_size_cap(n, max_image_bytes, spent) ==
  IF n > max_image_bytes THEN SizeCap("image", n)
  ELSE IF Saturated(spent + n) > MAX_CALL_IMAGE_BYTES THEN SizeCap("call", Saturated(spent + n))
  ELSE NoCap

\* Mutant: the estimate is taken at its word.
Under_as_estimated(max_image_bytes, spent, data) == data

Under(max_image_bytes, spent, data) ==
  LET cap == actual_size_cap(data.bytes, max_image_bytes, spent)
  IN  IF cap # NoCap THEN cap ELSE data

\* A bare JPX stream as it is stored, which must not be a ciphertext.
StoredJpx(handle, encrypted, max_image_bytes, spent) ==
  IF encrypted /\ ~handle.is_inline THEN DecodeError("encrypted")
  ELSE IF handle.sniffed = "neither" THEN DecodeError("not_jpx")
  ELSE Under(max_image_bytes, spent, Served(handle.sniffed, handle.byte_size_compressed))

\* The estimate is checked before a decode, and what the decode gives behind it.
image_bytes_for(handle, encrypted, decode, max_image_bytes, spent) ==
  LET estimated == actual_size_cap(decode_estimate(handle), max_image_bytes, spent)
      decoded   == handle.decoded
  IN  IF decode = "none" \/ (decode = "container" /\ ~HasDct(handle) /\ ~BareJpx(handle)) THEN NotRequested
      ELSE IF estimated # NoCap THEN estimated
      ELSE IF decoded.arm \in {"jpeg", "raw"}
           THEN Under(max_image_bytes, spent, Served(decoded.arm, decoded.bytes))
      ELSE IF decode = "container" /\ BareJpx(handle)
           THEN StoredJpx(handle, encrypted, max_image_bytes, spent)
      ELSE DecodeError(decoded.arm)

\* The box needs a frame; the bytes do not.
ImageBox(page, handle) ==
  IF page_box(page) = NoPageBox THEN NoBox ELSE Forward(page, handle.bbox)

\* The guess for a space that could not be read is marked until a decode confirms it.
color_space_declared(handle, data) ==
  handle.color_space # "rgb" \/ data.arm \in {"jpeg", "raw"}

ImageEntry(page, handle, data) ==
  [bbox |-> ImageBox(page, handle), color_space_declared |-> color_space_declared(handle, data),
   data |-> data]

\* The images of a page in the order of painting, and what the call has spent then.
page_images_one(page, encrypted, decode, max_image_bytes, spent) ==
  LET served[k \in 0..Len(page.images)] ==
        IF k = 0 THEN [images |-> <<>>, spent |-> spent]
        ELSE LET before == served[k - 1]
                 handle == page.images[k]
                 data   == image_bytes_for(handle, encrypted, decode, max_image_bytes, before.spent)
             IN  [images |-> Append(before.images, ImageEntry(page, handle, data)),
                  spent  |-> Saturated(before.spent + data.bytes)]
  IN  served[Len(page.images)]
===============================================================================
